---------------------------- MODULE Spec2Model ----------------------------
(***************************************************************************)
(* A model of the RFID gate reader: the frame codec (ReaderProtocol), the  *)
(* frame reassembler and dispatcher (ReaderController), the inventory      *)
(* store and the sensor correlator (ReaderModel, SensorState).             *)
(*                                                                         *)
(* Conventions.                                                            *)
(*   - bytes / bytearray  : sequences of integers in 0..255.               *)
(*   - str                : sequences of one-character strings, so that    *)
(*                          "" is << >> and hex()/str()/int() are real     *)
(*                          conversions.                                   *)
(*   - Optional[datetime] : << >> for None, <<t>> for a time t.            *)
(*   - datetime           : an integer number of milliseconds.             *)
(*   - SensorDirection    : the member names "UNKNOWN", "IN", "OUT"        *)
(*                          declared in data_models.py, and "X", the name  *)
(*                          reader_model.py uses for "no direction yet"    *)
(*                          (data_models.py declares no member X; the      *)
(*                          model takes it as a fourth value).             *)
(* Logging through _log / log_message is output only; the messages of a     *)
(* call are recorded (in last) only for the calls of the foreground thread *)
(* on the serial connections and the power commands.                       *)
(***************************************************************************)
EXTENDS Integers, Sequences, FiniteSets, TLC

(***************************************************************************)
(* Bounds of the model.                                                    *)
(***************************************************************************)
MaxDataLen == 2      \* longest data field given to create_frame
MaxStream == 8       \* longest byte stream fed to the reassembler
MaxCalls == 4        \* calls made on the store / the correlator in one run
MaxTime == 3         \* latest clock value (ms) of a run
NearCeiling == 2     \* how far below MAX_TOTAL_TAGS a run may start
MaxNow == 1          \* latest value of the store's clock

(***************************************************************************)
(* Program constants.                                                      *)
(***************************************************************************)
MAX_TOTAL_TAGS == 10000
HEADER == 160                \* 0xA0
CMD_FAST_SWITCH == 138       \* 0x8A
TAG_QUEUE_MAXLEN == 1000     \* deque(maxlen=1000)
MAX_LENGTH_BYTE == 255       \* bytes([0xA0, length, ...]): length fits a byte

None == << >>
Some(x) == <<x>>

VARIABLES
  \* --- codec harness: one create_frame / parse_response experiment
  c_in,                 \* [reader_id, cmd, data] given to create_frame
  c_frame,              \* the frame under test (<< >> before create_frame)
  c_flip,               \* << >> or <<[pos, bit]>>: the bit flipped in c_frame
  c_result,             \* << >> or <<r>>: what parse_response returned
  \* --- ReaderController
  response_buffer,      \* self._response_buffer
  is_inventory_running, \* self._is_inventory_running
  tag_queue,            \* self._tag_queue
  counts_dirty,         \* self._counts_dirty
  signals,              \* Qt signals emitted by _process_frame, in order
  \* --- reassembler harness
  stream,               \* the bytes the serial worker will deliver
  sent_stream,          \* the same bytes as the reader put them on the line
  fed,                  \* how many of them it has delivered
  frames,               \* the frames handed to _process_frame, in order
  \* --- ReaderModel: inventory store
  epc_dictionary,       \* self._epc_dictionary
  epc_read_history,     \* self._epc_read_history
  total_tag_count,      \* self._total_tag_count
  detected_direction,   \* self._detected_direction
  \* --- ReaderModel: sensor correlator
  s1_activated_time,    \* self._sensor_state.s1_activated_time
  s2_activated_time,    \* self._sensor_state.s2_activated_time
  last_direction,       \* self._sensor_state.last_direction
  last_s1_activation,   \* self._last_s1_activation
  last_s2_activation,   \* self._last_s2_activation
  sensor_activated_time,\* self._sensor_activated_time
  sensor_events,        \* calls of the on_sensor callback, in order
  sensor_lock,          \* self._sensor_lock: << >>, or <<t>> held by thread t
  \* --- environment
  now,                  \* datetime.now()
  calls,                \* number of calls made so far in this run
  last,                 \* the last call and what it returned
  call_log,             \* the calls that have returned so far, in order
  \* --- parse_tag_data harness
  tag_payload,          \* the data given to parse_tag_data
  tag_parsed,           \* << >> or <<r>>: what parse_tag_data returned
  \* --- analyze_tags harness
  analysis,             \* << >> or <<a>>: what analyze_tags computed
  \* --- SerialManager
  reader_port,          \* self._reader_port: "None", or a port "closed"/"open"
  sensor_port,          \* self._sensor_port, likewise
  is_reading,           \* self._is_reading
  prev_cts,             \* self._prev_cts
  prev_dsr,             \* self._prev_dsr
  reader_threads,       \* the threads started by connect_reader, in order;
                        \* self._reader_thread is the last one
  sensor_threads,       \* the threads started by connect_sensor, in order
  ui_pc,                \* where the foreground (Qt) thread is
  serial_log,           \* the errors the workers' polls raised, in order
  sampled,              \* the last value sampled on each control line
  \* --- ReaderController: the scan
  antenna_config,       \* self._antenna_config
  inventory_thread,     \* self._inventory_thread: 0 for None, or the index
                        \* of a thread in inventory_threads
  inventory_threads,    \* the threads started by start_inventory, in order
  timer_active,         \* self._ui_update_timer.isActive()
  last_unique_count,    \* self._last_unique_count
  last_total_count,     \* self._last_total_count
  view_running,         \* what _view.set_inventory_running was last given
  scan_no,              \* how many scans start_inventory has started
  queued,               \* the tag events appended to self._tag_queue so far
  wire                  \* the polls _inventory_loop gave send_command, in order

codecVars == <<c_in, c_frame, c_flip, c_result>>
ctrlVars == <<response_buffer, is_inventory_running, tag_queue, counts_dirty,
              signals>>
reasmVars == <<stream, sent_stream, fed, frames>>
storeVars == <<epc_dictionary, epc_read_history, total_tag_count,
               detected_direction>>
sensorVars == <<s1_activated_time, s2_activated_time, last_direction,
                last_s1_activation, last_s2_activation,
                sensor_activated_time, sensor_events, sensor_lock>>
envVars == <<now, calls, last, call_log>>
tagVars == <<tag_payload, tag_parsed>>
\* the variables of the components specified after the reassembler
analysisVars == <<analysis>>
serialVars == <<reader_port, sensor_port, is_reading, prev_cts, prev_dsr,
                reader_threads, sensor_threads, ui_pc, serial_log, sampled>>
scanVars == <<antenna_config, inventory_thread, inventory_threads,
              timer_active, last_unique_count, last_total_count,
              view_running, scan_no, queued, wire>>
auxVars == <<tagVars, analysisVars, serialVars, scanVars>>
vars == <<codecVars, ctrlVars, reasmVars, storeVars, sensorVars, envVars,
          auxVars>>

(***************************************************************************)
(* Sequence helpers.                                                       *)
(***************************************************************************)
\* s[a] + ... + s[b], halving the range so that long frames stay shallow
RECURSIVE SumRange(_, _, _)
SumRange(s, a, b) ==
  IF a > b THEN 0
  ELSE IF a = b THEN s[a]
  ELSE LET mid == (a + b) \div 2
       IN  SumRange(s, a, mid) + SumRange(s, mid + 1, b)

SumSeq(s) == SumRange(s, 1, Len(s))

\* Python s[a:b] with 0 <= a, on 0-based positions: elements a .. b-1
Slice(s, a, b) == IF b <= a THEN << >> ELSE SubSeq(s, a + 1, b)

\* Python s[a:]
DropFirst(s, a) == IF a >= Len(s) THEN << >> ELSE SubSeq(s, a + 1, Len(s))

SeqsUpTo(S, n) == UNION {[1..k -> S] : k \in 0..n}

(***************************************************************************)
(* ReaderProtocol: the frame codec.                                        *)
(***************************************************************************)
\* two's complement of the byte sum: (~total + 1) & 0xFF
calculate_checksum(data) ==
  LET total == SumSeq(data) % 256
  IN  ((255 - total) + 1) % 256

create_frame(reader_id, cmd, data) ==
  LET length == Len(data) + 3
      frame_without_checksum == <<HEADER, length, reader_id, cmd>> \o data
      checksum == calculate_checksum(frame_without_checksum)
  IN  frame_without_checksum \o <<checksum>>

\* A mutant of parse_response: the payload slice keeps the checksum byte.
parse_response_payload_to_end(data) ==
  IF Len(data) < 5 THEN [valid |-> FALSE, error |-> "Frame too short"]
  ELSE IF data[1] # HEADER THEN [valid |-> FALSE, error |-> "Invalid header"]
  ELSE
    LET calc_checksum == calculate_checksum(Slice(data, 0, Len(data) - 1))
    IN  IF calc_checksum # data[Len(data)]
        THEN [valid |-> FALSE, error |-> "Checksum mismatch",
              expected |-> calc_checksum, got |-> data[Len(data)]]
        ELSE [valid |-> TRUE, reader_id |-> data[3], cmd |-> data[4],
              data |-> DropFirst(data, 4)]

\* A mutant of parse_response: the header byte is not checked.
parse_response_no_header_check(data) ==
  IF Len(data) < 5 THEN [valid |-> FALSE, error |-> "Frame too short"]
  ELSE
    LET calc_checksum == calculate_checksum(Slice(data, 0, Len(data) - 1))
    IN  IF calc_checksum # data[Len(data)]
        THEN [valid |-> FALSE, error |-> "Checksum mismatch",
              expected |-> calc_checksum, got |-> data[Len(data)]]
        ELSE [valid |-> TRUE, reader_id |-> data[3], cmd |-> data[4],
              data |-> Slice(data, 4, Len(data) - 1)]

\* A mutant of parse_response: the checksum is not compared.
parse_response_no_checksum(data) ==
  IF Len(data) < 5 THEN [valid |-> FALSE, error |-> "Frame too short"]
  ELSE IF data[1] # HEADER THEN [valid |-> FALSE, error |-> "Invalid header"]
  ELSE [valid |-> TRUE, reader_id |-> data[3], cmd |-> data[4],
        data |-> IF Len(data) > 5 THEN Slice(data, 4, Len(data) - 1)
                 ELSE << >>]

parse_response(data) ==
  IF Len(data) < 5 THEN [valid |-> FALSE, error |-> "Frame too short"]
  ELSE IF data[1] # HEADER THEN [valid |-> FALSE, error |-> "Invalid header"]
  ELSE
    LET reader_id == data[3]
        cmd == data[4]
        payload == IF Len(data) > 5 THEN Slice(data, 4, Len(data) - 1)
                   ELSE << >>
        received_checksum == data[Len(data)]
        calc_checksum == calculate_checksum(Slice(data, 0, Len(data) - 1))
    IN  IF calc_checksum # received_checksum
        THEN [valid |-> FALSE, error |-> "Checksum mismatch",
              expected |-> calc_checksum, got |-> received_checksum]
        ELSE [valid |-> TRUE, reader_id |-> reader_id, cmd |-> cmd,
              data |-> payload]

(***************************************************************************)
(* str conversions: bytes.hex().upper(), str(int), int(str), "%.2f".       *)
(***************************************************************************)
HexDigits == <<"0", "1", "2", "3", "4", "5", "6", "7",
               "8", "9", "A", "B", "C", "D", "E", "F">>

DecDigits == <<"0", "1", "2", "3", "4", "5", "6", "7", "8", "9">>

\* bytes.hex().upper(): two hexadecimal digits per byte
RECURSIVE HexUpper(_)
HexUpper(bs) ==
  IF bs = << >> THEN << >>
  ELSE <<HexDigits[(Head(bs) \div 16) + 1], HexDigits[(Head(bs) % 16) + 1]>>
         \o HexUpper(Tail(bs))

\* str(n) for n >= 0
RECURSIVE StrOfInt(_)
StrOfInt(n) ==
  IF n < 10 THEN <<DecDigits[n + 1]>>
  ELSE StrOfInt(n \div 10) \o <<DecDigits[(n % 10) + 1]>>

DigitValue(c) == (CHOOSE i \in 1..10 : DecDigits[i] = c) - 1

\* int(s) for a non-empty string of decimal digits
RECURSIVE IntOfStr(_)
IntOfStr(s) ==
  IF Len(s) = 1 THEN DigitValue(s[1])
  ELSE 10 * IntOfStr(SubSeq(s, 1, Len(s) - 1)) + DigitValue(s[Len(s)])

\* f"{frequency:.2f}" for a frequency given in units of 0.5 MHz
FormatFrequency(half_mhz) ==
  StrOfInt(half_mhz \div 2) \o <<".">>
     \o (IF half_mhz % 2 = 0 THEN <<"0", "0">> ELSE <<"5", "0">>)

(***************************************************************************)
(* ReaderProtocol.parse_tag_data: << >> for None, <<tag_data>> otherwise.  *)
(***************************************************************************)
\* A mutant of parse_tag_data: channel 7 still takes the 865 MHz formula.
parse_tag_data_above_7(cmd, data) ==
  IF Len(data) < 4 THEN None
  ELSE
    LET ant_byte == data[1]
        freq_code == (ant_byte % 256) \div 4
        ant_id == (ant_byte % 4) + 1
        pc == HexUpper(Slice(data, 1, 3))
        epc_length == Len(data) - 4
        epc == HexUpper(Slice(data, 3, 3 + epc_length))
        rssi == data[Len(data)]
        frequency == IF freq_code > 7 THEN 1804 + (freq_code - 7)
                     ELSE 1730 + freq_code
    IN  Some([pc |-> pc, epc |-> epc, rssi |-> rssi, antenna |-> ant_id,
              frequency |-> FormatFrequency(frequency)])

parse_tag_data(cmd, data) ==
  IF Len(data) < 4 THEN None
  ELSE
    LET ant_byte == data[1]
        freq_code == (ant_byte % 256) \div 4
        ant_id == (ant_byte % 4) + 1
        pc == HexUpper(Slice(data, 1, 3))
        epc_length == Len(data) - 4
        epc == HexUpper(Slice(data, 3, 3 + epc_length))
        rssi == data[Len(data)]
        \* 902.0 + (freq_code - 7) * 0.5, else 865.0 + freq_code * 0.5
        frequency == IF freq_code >= 7 THEN 1804 + (freq_code - 7)
                     ELSE 1730 + freq_code
    IN  Some([pc |-> pc, epc |-> epc, rssi |-> rssi, antenna |-> ant_id,
              frequency |-> FormatFrequency(frequency)])

(***************************************************************************)
(* ReaderModel: the inventory store.  A store value m is the record of     *)
(* the four fields; the operators return the store after the call.         *)
(***************************************************************************)
EmptyDict == [e \in {} |-> 0]

Str000000 == <<"0", "0", "0", "0", "0", "0">>
Str000001 == <<"0", "0", "0", "0", "0", "1">>

Store ==
  [epc_dictionary |-> epc_dictionary,
   epc_read_history |-> epc_read_history,
   total_tag_count |-> total_tag_count,
   detected_direction |-> detected_direction]

SetStore(m) ==
  /\ epc_dictionary' = m.epc_dictionary
  /\ epc_read_history' = m.epc_read_history
  /\ total_tag_count' = m.total_tag_count
  /\ detected_direction' = m.detected_direction

\* A mutant of clear_data: the read history is kept.
clear_data_keeps_history(m) ==
  [epc_dictionary |-> EmptyDict,
   epc_read_history |-> m.epc_read_history,
   total_tag_count |-> 0,
   detected_direction |-> "X"]

clear_data(m) ==
  [epc_dictionary |-> EmptyDict,
   epc_read_history |-> << >>,
   total_tag_count |-> 0,
   detected_direction |-> "X"]

\* RXInventoryTag built by _process_frame from a parse_tag_data result
RXInventoryTag(str_pc, str_epc, str_rssi, str_freq, bt_ant_id) ==
  [str_pc |-> str_pc, str_epc |-> str_epc, str_rssi |-> str_rssi,
   str_freq |-> str_freq, bt_ant_id |-> bt_ant_id, cmd |-> 0]

\* A mutant of the EPC filter: only "000000" is rejected.
rejects_epc_one_sentinel(str_epc) ==
  str_epc = << >> \/ str_epc = Str000000

\* process_tag's first test: not tag.str_epc or tag.str_epc in (...)
rejects_epc(str_epc) ==
  str_epc = << >> \/ str_epc \in {Str000000, Str000001}

\* A mutant of the ceiling test: > instead of >=.
reached_ceiling_strict(count) == count > MAX_TOTAL_TAGS

\* process_tag's ceiling test: self._total_tag_count >= self.MAX_TOTAL_TAGS
reached_ceiling(count) == count >= MAX_TOTAL_TAGS

\* process_tag(tag) at clock value t: the store after the call, and the
\* value returned.  (The on_tag callback is ReaderController._on_tag_detected,
\* whose body is "pass".)
process_tag(m, tag, t) ==
  IF rejects_epc(tag.str_epc)
  THEN [model |-> m, ret |-> FALSE]
  ELSE
    LET m1 == [m EXCEPT !.total_tag_count = @ + 1]
        m2 == IF reached_ceiling(m1.total_tag_count) THEN clear_data(m1)
              ELSE m1
        is_new == tag.str_epc \notin DOMAIN m2.epc_dictionary
        dict == IF is_new
                THEN [e \in DOMAIN m2.epc_dictionary \cup {tag.str_epc} |->
                        IF e = tag.str_epc THEN 1 ELSE m2.epc_dictionary[e]]
                ELSE [m2.epc_dictionary EXCEPT ![tag.str_epc] = @ + 1]
        event == [epc |-> tag.str_epc,
                  rssi |-> IF tag.str_rssi # << >> THEN IntOfStr(tag.str_rssi)
                           ELSE 0,
                  read_time |-> t, antenna |-> tag.bt_ant_id,
                  frequency |-> tag.str_freq, pc |-> tag.str_pc]
    IN  [model |-> [m2 EXCEPT !.epc_dictionary = dict,
                              !.epc_read_history = Append(@, event)],
         ret |-> is_new]

get_tag_count(m, epc) ==
  IF epc \in DOMAIN m.epc_dictionary THEN m.epc_dictionary[epc] ELSE 0

(***************************************************************************)
(* SensorState (data_models.py).  A value ss is the record of the two      *)
(* activation times and last_direction.                                    *)
(***************************************************************************)
Abs(x) == IF x < 0 THEN -x ELSE x

Max(a, b) == IF a >= b THEN a ELSE b

both_sensors_activated(ss) ==
  ss.s1_activated_time # None /\ ss.s2_activated_time # None

\* A mutant of get_direction: <= instead of <.
get_direction_le(ss) ==
  IF ~both_sensors_activated(ss) THEN "UNKNOWN"
  ELSE IF ss.s1_activated_time[1] <= ss.s2_activated_time[1] THEN "OUT"
       ELSE "IN"

get_direction(ss) ==
  IF ~both_sensors_activated(ss) THEN "UNKNOWN"
  ELSE IF ss.s1_activated_time[1] < ss.s2_activated_time[1] THEN "OUT"
       ELSE "IN"

\* abs((s2 - s1).total_seconds() * 1000), on millisecond clock values
get_time_difference_ms(ss) ==
  IF ~both_sensors_activated(ss) THEN 0
  ELSE Abs(ss.s2_activated_time[1] - ss.s1_activated_time[1])

\* called only with both timestamps set (otherwise datetime.now())
get_trigger_time(ss) ==
  Max(ss.s1_activated_time[1], ss.s2_activated_time[1])

\* A mutant of reset: the sensor-2 timestamp is not cleared.
reset_keeps_s2(ss) ==
  [s1_activated_time |-> None, s2_activated_time |-> ss.s2_activated_time,
   last_direction |-> "UNKNOWN"]

reset(ss) ==
  [s1_activated_time |-> None, s2_activated_time |-> None,
   last_direction |-> "UNKNOWN"]

(***************************************************************************)
(* ReaderModel.handle_sensor_activation.  A correlator value c is the      *)
(* record of the sensor state and of the model fields the call writes.     *)
(***************************************************************************)
Correlator ==
  [sensor_state |-> [s1_activated_time |-> s1_activated_time,
                     s2_activated_time |-> s2_activated_time,
                     last_direction |-> last_direction],
   last_s1_activation |-> last_s1_activation,
   last_s2_activation |-> last_s2_activation,
   sensor_activated_time |-> sensor_activated_time,
   detected_direction |-> detected_direction]

SetCorrelator(c) ==
  /\ s1_activated_time' = c.sensor_state.s1_activated_time
  /\ s2_activated_time' = c.sensor_state.s2_activated_time
  /\ last_direction' = c.sensor_state.last_direction
  /\ last_s1_activation' = c.last_s1_activation
  /\ last_s2_activation' = c.last_s2_activation
  /\ sensor_activated_time' = c.sensor_activated_time
  /\ detected_direction' = c.detected_direction
  /\ sensor_lock' = sensor_lock

\* A mutant of the timestamp assignment: a timestamp already held is kept.
set_activation_first_wins(ss, is_sensor1, activation_time) ==
  IF is_sensor1
  THEN IF ss.s1_activated_time # None THEN ss
       ELSE [ss EXCEPT !.s1_activated_time = Some(activation_time)]
  ELSE IF ss.s2_activated_time # None THEN ss
       ELSE [ss EXCEPT !.s2_activated_time = Some(activation_time)]

\* the first statement under the sensor lock
set_activation(ss, is_sensor1, activation_time) ==
  IF is_sensor1
  THEN [ss EXCEPT !.s1_activated_time = Some(activation_time)]
  ELSE [ss EXCEPT !.s2_activated_time = Some(activation_time)]

\* the correlator after the call, the value returned (should_trigger) and
\* the arguments given to the on_sensor callback when it is called
handle_sensor_activation(c, is_sensor1, activation_time) ==
  LET ss == set_activation(c.sensor_state, is_sensor1, activation_time)
  IN  IF both_sensors_activated(ss)
      THEN
        LET direction == get_direction(ss)
            time_diff == get_time_difference_ms(ss)
            trigger_time == get_trigger_time(ss)
        IN  [model |-> [sensor_state |-> reset(ss),
                        last_s1_activation |-> ss.s1_activated_time,
                        last_s2_activation |-> ss.s2_activated_time,
                        sensor_activated_time |-> Some(trigger_time),
                        detected_direction |-> direction],
             ret |-> TRUE, direction |-> direction, time_diff |-> time_diff]
      ELSE [model |-> [c EXCEPT !.sensor_state = ss],
            ret |-> FALSE, direction |-> "X", time_diff |-> 0]

(***************************************************************************)
(* ReaderController: the dispatcher (_process_frame) and the reassembler   *)
(* (_on_data_received, _process_buffer).  A controller value w is the      *)
(* record of the fields _process_frame reads or writes and of the model's  *)
(* store.                                                                  *)
(***************************************************************************)
World ==
  [model |-> Store,
   is_inventory_running |-> is_inventory_running,
   tag_queue |-> tag_queue,
   counts_dirty |-> counts_dirty,
   signals |-> signals]

SetWorld(w) ==
  /\ SetStore(w.model)
  /\ is_inventory_running' = w.is_inventory_running
  /\ tag_queue' = w.tag_queue
  /\ counts_dirty' = w.counts_dirty
  /\ signals' = w.signals

\* deque(maxlen=1000).append: a full queue drops its oldest element
deque_append(q, x) ==
  IF Len(q) >= TAG_QUEUE_MAXLEN THEN Append(Tail(q), x) ELSE Append(q, x)

_queue_tag_for_ui(w, tag_dict) ==
  [w EXCEPT !.tag_queue = deque_append(@, tag_dict), !.counts_dirty = TRUE]

Emit(w, signal) == [w EXCEPT !.signals = Append(@, signal)]

\* the degree suffix of the temperature text, one element per character of
\* the source literal
DegreeC == <<"A^", "deg", "C">>

\* A mutant of the test for a tag read: the running flag is not looked at.
is_tag_read_always(cmd, running) == cmd = CMD_FAST_SWITCH

\* if cmd == 0x8A and self._is_inventory_running
is_tag_read(cmd, running) == cmd = CMD_FAST_SWITCH /\ running

\* _process_frame(frame) at clock value t
_process_frame(w, frame, t) ==
  LET result == parse_response(frame)
  IN
  IF ~result.valid THEN w
  ELSE
    LET cmd == result.cmd
        data == result.data
    IN
    IF is_tag_read(cmd, w.is_inventory_running) THEN
      LET tag_data == parse_tag_data(cmd, data)
      IN  IF tag_data # None /\ tag_data[1].epc # << >> THEN
            LET td == tag_data[1]
                tag == RXInventoryTag(td.pc, td.epc, StrOfInt(td.rssi),
                                      td.frequency, td.antenna)
                r == process_tag(w.model, tag, t)
                w1 == [w EXCEPT !.model = r.model]
            IN  _queue_tag_for_ui(w1,
                  [epc |-> td.epc, antenna |-> td.antenna,
                   count |-> get_tag_count(r.model, td.epc),
                   rssi |-> td.rssi, frequency |-> td.frequency])
          ELSE w
    ELSE IF cmd = 114 THEN        \* 0x72 firmware version
      IF Len(data) >= 2
      THEN Emit(w, [signal |-> "reader_info_updated", key |-> "firmware",
                    value |-> StrOfInt(data[1]) \o <<".">>
                                \o StrOfInt(data[2])])
      ELSE w
    ELSE IF cmd = 104 THEN        \* 0x68 reader id
      Emit(w, [signal |-> "reader_info_updated", key |-> "reader_id",
               value |-> HexUpper(data)])
    ELSE IF cmd = 123 THEN        \* 0x7B temperature
      IF Len(data) >= 2
      THEN Emit(w, [signal |-> "reader_info_updated", key |-> "temperature",
                    value |-> (IF data[1] # 0 THEN << >> ELSE <<"-">>)
                                \o StrOfInt(data[2]) \o DegreeC])
      ELSE w
    ELSE IF cmd = 118 THEN        \* 0x76 set power response
      IF Len(data) >= 1
      THEN IF data[1] = 16
           THEN Emit(w, [signal |-> "log_message",
                         message |-> "Power set successfully", type |-> 2])
           ELSE Emit(w, [signal |-> "log_message",
                         message |-> "Set power failed: error",
                         code |-> data[1], type |-> 1])
      ELSE w
    ELSE IF cmd = 119 \/ cmd = 151 THEN   \* 0x77 / 0x97 get power response
      LET powers == IF Len(data) >= 4 THEN SubSeq(data, 1, 4) ELSE data
      IN  Emit(Emit(w, [signal |-> "reader_info_updated", key |-> "powers",
                        value |-> powers]),
               [signal |-> "log_message", message |-> "Power levels",
                powers |-> powers, type |-> 0])
    ELSE IF cmd = 106 THEN        \* 0x6A RF profile
      IF data # << >>
      THEN Emit(w, [signal |-> "reader_info_updated", key |-> "rf_profile",
                    value |-> data[1]])
      ELSE w
    ELSE IF cmd = 96 THEN         \* 0x60 GPIO read
      IF Len(data) >= 2
      THEN Emit(w, [signal |-> "gpio_state_updated",
                    value |-> <<data[1] # 0, data[2] # 0,
                                IF Len(data) > 2 THEN data[3] # 0 ELSE FALSE,
                                IF Len(data) > 3 THEN data[4] # 0 ELSE FALSE>>])
      ELSE w
    ELSE IF cmd = 126 THEN        \* 0x7E S11 measurement
      IF data # << >>
      THEN Emit(w, [signal |-> "set_s11_result", value |-> data[1]])
      ELSE w
    ELSE w

\* A mutant of _process_buffer: an incomplete frame is not waited for, its
\* first byte is dropped like a garbage byte.
RECURSIVE _process_buffer_no_wait(_, _)
_process_buffer_no_wait(buffer, out) ==
  IF Len(buffer) < 5 THEN [buffer |-> buffer, frames |-> out]
  ELSE IF buffer[1] # HEADER THEN _process_buffer_no_wait(Tail(buffer), out)
  ELSE
    LET frame_len == buffer[2]
    IN  IF Len(buffer) < frame_len + 2
        THEN _process_buffer_no_wait(Tail(buffer), out)
        ELSE _process_buffer_no_wait(
               DropFirst(buffer, frame_len + 2),
               Append(out, Slice(buffer, 0, frame_len + 2)))

\* A mutant of _process_buffer: the loop stops at a garbage byte.
RECURSIVE _process_buffer_keep_garbage(_, _)
_process_buffer_keep_garbage(buffer, out) ==
  IF Len(buffer) < 5 THEN [buffer |-> buffer, frames |-> out]
  ELSE IF buffer[1] # HEADER THEN [buffer |-> buffer, frames |-> out]
  ELSE
    LET frame_len == buffer[2]
    IN  IF Len(buffer) < frame_len + 2
        THEN [buffer |-> buffer, frames |-> out]
        ELSE _process_buffer_keep_garbage(
               DropFirst(buffer, frame_len + 2),
               Append(out, Slice(buffer, 0, frame_len + 2)))

\* A mutant of _process_buffer: garbage is dropped two bytes at a time.
RECURSIVE _process_buffer_drop_two(_, _)
_process_buffer_drop_two(buffer, out) ==
  IF Len(buffer) < 5 THEN [buffer |-> buffer, frames |-> out]
  ELSE IF buffer[1] # HEADER
       THEN _process_buffer_drop_two(DropFirst(buffer, 2), out)
  ELSE
    LET frame_len == buffer[2]
    IN  IF Len(buffer) < frame_len + 2
        THEN [buffer |-> buffer, frames |-> out]
        ELSE _process_buffer_drop_two(
               DropFirst(buffer, frame_len + 2),
               Append(out, Slice(buffer, 0, frame_len + 2)))

\* _process_buffer's loop on the buffer: the buffer it leaves and the
\* frames it hands to _process_frame, in order, after those in out.
\* (_process_frame never touches the buffer, so the frames are dispatched
\* by the caller below in the same order as the loop does.)
RECURSIVE _process_buffer(_, _)
_process_buffer(buffer, out) ==
  IF Len(buffer) < 5 THEN [buffer |-> buffer, frames |-> out]
  ELSE IF buffer[1] # HEADER THEN _process_buffer(Tail(buffer), out)
  ELSE
    LET frame_len == buffer[2]
    IN  IF Len(buffer) < frame_len + 2
        THEN [buffer |-> buffer, frames |-> out]
        ELSE _process_buffer(
               DropFirst(buffer, frame_len + 2),
               Append(out, Slice(buffer, 0, frame_len + 2)))

\* _process_frame applied to each frame of fs in order
RECURSIVE DispatchAll(_, _, _)
DispatchAll(w, fs, t) ==
  IF fs = << >> THEN w
  ELSE DispatchAll(_process_frame(w, Head(fs), t), Tail(fs), t)

\* _on_data_received(data) at clock value t: the controller afterwards,
\* its buffer, and the frames handed to _process_frame by this call
_on_data_received(w, buffer, data, t) ==
  LET r == _process_buffer(buffer \o data, << >>)
  IN  [world |-> DispatchAll(w, r.frames, t),
       buffer |-> r.buffer,
       frames |-> r.frames]

(***************************************************************************)
(* Values the program holds right after construction                       *)
(* (ReaderController.__init__, ReaderModel.__init__, SensorState()).       *)
(***************************************************************************)
CtrlInit ==
  /\ response_buffer = << >>
  /\ is_inventory_running = FALSE
  /\ tag_queue = << >>
  /\ counts_dirty = FALSE
  /\ signals = << >>

StoreInit ==
  /\ epc_dictionary = << >>
  /\ epc_read_history = << >>
  /\ total_tag_count = 0
  /\ detected_direction = "X"

SensorInit ==
  /\ s1_activated_time = None
  /\ s2_activated_time = None
  /\ last_direction = "UNKNOWN"
  /\ last_s1_activation = None
  /\ last_s2_activation = None
  /\ sensor_activated_time = None
  /\ sensor_events = << >>
  /\ sensor_lock = None

CodecIdle ==
  /\ c_in = [reader_id |-> 0, cmd |-> 0, data |-> << >>]
  /\ c_frame = << >>
  /\ c_flip = << >>
  /\ c_result = << >>

ReasmIdle ==
  /\ stream = << >>
  /\ sent_stream = << >>
  /\ fed = 0
  /\ frames = << >>

EnvInit ==
  /\ now = 0
  /\ calls = 0
  /\ last = [op |-> "none"]
  /\ call_log = << >>

TagIdle ==
  /\ tag_payload = << >>
  /\ tag_parsed = << >>

\* the components specified after the reassembler, at rest
AnalysisIdle == analysis = << >>

\* SerialManager.__init__
SerialInit ==
  /\ reader_port = "None"
  /\ sensor_port = "None"
  /\ is_reading = FALSE
  /\ prev_cts = FALSE
  /\ prev_dsr = FALSE
  /\ reader_threads = << >>
  /\ sensor_threads = << >>
  /\ ui_pc = "idle"
  /\ serial_log = << >>
  /\ sampled = [cts |-> FALSE, dsr |-> FALSE]

\* ReaderController.__init__: the fields of the scan
ScanInit ==
  /\ antenna_config = <<0, 1, 1, 1, 2, 0, 3, 0, 0, 0>>
  /\ inventory_thread = 0
  /\ inventory_threads = << >>
  /\ timer_active = FALSE
  /\ last_unique_count = 0
  /\ last_total_count = 0
  /\ view_running = FALSE
  /\ scan_no = 0
  /\ queued = << >>
  /\ wire = << >>

AuxIdle == TagIdle /\ AnalysisIdle /\ SerialInit /\ ScanInit

(***************************************************************************)
(* SpecCodec: create_frame, an optional single bit flip on the wire, and   *)
(* parse_response, on inputs drawn from bounded sets.                      *)
(***************************************************************************)
\* bytes used as reader id, command and data: 0x00, 0x01, 0xA0 and 0xFF
CodecBytes == {0, 1, HEADER, 255}

Pow2(k) == 2 ^ k

\* byte b with bit k (0 = least significant) inverted
FlipBit(b, k) == IF (b \div Pow2(k)) % 2 = 1 THEN b - Pow2(k) ELSE b + Pow2(k)

\* the longest data create_frame accepts: 252 bytes, length byte 255
LongestData == [i \in 1..(MAX_LENGTH_BYTE - 3) |-> 255]

InitCodec ==
  /\ c_in \in [reader_id : CodecBytes, cmd : CodecBytes,
               data : SeqsUpTo(CodecBytes, MaxDataLen) \cup {LongestData}]
  /\ c_frame = << >>
  /\ c_flip = << >>
  /\ c_result = << >>
  /\ CtrlInit /\ ReasmIdle /\ StoreInit /\ SensorInit /\ EnvInit
  /\ AuxIdle

CreateFrame ==
  /\ c_frame = << >>
  /\ c_frame' = create_frame(c_in.reader_id, c_in.cmd, c_in.data)
  /\ UNCHANGED <<c_in, c_flip, c_result>>
  /\ UNCHANGED <<ctrlVars, reasmVars, storeVars, sensorVars, envVars,
               auxVars>>

\* line noise: one bit of the frame is inverted before it is parsed
FlipOneBit ==
  /\ c_frame # << >> /\ c_flip = << >> /\ c_result = << >>
  /\ \E pos \in 1..Len(c_frame), bit \in 0..7 :
       /\ c_frame' = [c_frame EXCEPT ![pos] = FlipBit(c_frame[pos], bit)]
       /\ c_flip' = <<[pos |-> pos, bit |-> bit]>>
  /\ UNCHANGED <<c_in, c_result>>
  /\ UNCHANGED <<ctrlVars, reasmVars, storeVars, sensorVars, envVars,
               auxVars>>

ParseResponse ==
  /\ c_frame # << >> /\ c_result = << >>
  /\ c_result' = <<parse_response(c_frame)>>
  /\ UNCHANGED <<c_in, c_frame, c_flip>>
  /\ UNCHANGED <<ctrlVars, reasmVars, storeVars, sensorVars, envVars,
               auxVars>>

NextCodec == CreateFrame \/ FlipOneBit \/ ParseResponse

SpecCodec == InitCodec /\ [][NextCodec]_vars

\* C1: for every reader_id, cmd and data within the length field's range,
\* parse_response(create_frame(reader_id, cmd, data)) is valid and returns
\* exactly that reader_id, cmd and data.
C1_RoundTrip ==
  (c_result # << >> /\ c_flip = << >>) =>
     c_result[1] = [valid |-> TRUE, reader_id |-> c_in.reader_id,
                    cmd |-> c_in.cmd, data |-> c_in.data]

\* the frame with the longest data (252 bytes, length byte 255) and reader
\* id 0xA0 was created, left intact and parsed
C1_Witness ==
  /\ c_result # << >> /\ c_flip = << >>
  /\ c_result[1].valid
  /\ Len(c_in.data) = 252
  /\ c_frame[2] = 255
  /\ c_in.reader_id = HEADER

\* C4 as stated: any single bit flip, the header byte included, is
\* rejected with the checksum-mismatch error.
C4_AnyFlipIsChecksumMismatch ==
  (c_result # << >> /\ c_flip # << >>) =>
     /\ ~c_result[1].valid
     /\ c_result[1].error = "Checksum mismatch"

\* C4 amended: any single bit flip is rejected; the error is "Invalid
\* header" when the flipped bit lies in byte 0 and the checksum mismatch
\* (reporting the computed and the received checksum) for every other byte.
C4_FlipRejected ==
  (c_result # << >> /\ c_flip # << >>) =>
     /\ ~c_result[1].valid
     /\ IF c_flip[1].pos = 1
        THEN c_result[1].error = "Invalid header"
        ELSE /\ c_result[1].error = "Checksum mismatch"
             /\ c_result[1].expected # c_result[1].got

\* a bit of the length byte was flipped and the frame was parsed
C4_Witness ==
  /\ c_result # << >> /\ c_flip # << >>
  /\ c_flip[1].pos = 2
  /\ Len(c_frame) > 5

(***************************************************************************)
(* SpecStore: process_tag and clear_data called one at a time, from the    *)
(* empty store and from stores a few reads below the ceiling.              *)
(***************************************************************************)
EpcA == <<"E", "2", "0", "0">>
EpcB == <<"E", "2", "0", "1">>
Str200 == StrOfInt(200)
Str3000 == <<"3", "0", "0", "0">>

\* the tags given to process_tag: empty and sentinel EPCs, and two real
\* tags (one with the default, empty, str_rssi)
TagInputs ==
  {RXInventoryTag(Str3000, epc, Str200, FormatFrequency(1731), 1) :
      epc \in {<< >>, Str000000, Str000001, EpcA}}
  \cup {RXInventoryTag(Str3000, EpcB, << >>, FormatFrequency(1804), 2)}

\* the store after n reads of the same tag at clock value 0
StoreAfterReads(tag, n) ==
  LET event == [epc |-> tag.str_epc, rssi |-> IntOfStr(tag.str_rssi),
                read_time |-> 0, antenna |-> tag.bt_ant_id,
                frequency |-> tag.str_freq, pc |-> tag.str_pc]
  IN  [epc_dictionary |-> [e \in {tag.str_epc} |-> n],
       epc_read_history |-> [i \in 1..n |-> event],
       total_tag_count |-> n,
       detected_direction |-> "X"]

InitStore ==
  /\ \/ StoreInit
     \/ \E n \in (MAX_TOTAL_TAGS - NearCeiling)..(MAX_TOTAL_TAGS - 1) :
          LET m == StoreAfterReads(
                     RXInventoryTag(Str3000, EpcA, Str200,
                                    FormatFrequency(1731), 1), n)
          IN  /\ epc_dictionary = m.epc_dictionary
              /\ epc_read_history = m.epc_read_history
              /\ total_tag_count = m.total_tag_count
              /\ detected_direction = m.detected_direction
  /\ CodecIdle /\ CtrlInit /\ ReasmIdle /\ SensorInit /\ EnvInit
  /\ AuxIdle

ProcessTag ==
  /\ calls < MaxCalls
  /\ \E tag \in TagInputs :
       LET r == process_tag(Store, tag, now)
       IN  /\ SetStore(r.model)
           /\ last' = [op |-> "process_tag", tag |-> tag, ret |-> r.ret]
  /\ calls' = calls + 1
  /\ UNCHANGED <<now, call_log>>
  /\ UNCHANGED <<codecVars, ctrlVars, reasmVars, sensorVars, auxVars>>

ClearData ==
  /\ calls < MaxCalls
  /\ SetStore(clear_data(Store))
  /\ last' = [op |-> "clear_data"]
  /\ calls' = calls + 1
  /\ UNCHANGED <<now, call_log>>
  /\ UNCHANGED <<codecVars, ctrlVars, reasmVars, sensorVars, auxVars>>

\* the wall clock advances between calls
Tick ==
  /\ now < MaxNow
  /\ now' = now + 1
  /\ UNCHANGED <<calls, last, call_log>>
  /\ UNCHANGED <<codecVars, ctrlVars, reasmVars, storeVars, sensorVars,
               auxVars>>

NextStore == ProcessTag \/ ClearData \/ Tick

SpecStore == InitStore /\ [][NextStore]_vars

\* the step is a call of process_tag
IsProcessTagCall == calls' = calls + 1 /\ last'.op = "process_tag"

\* C5: process_tag with an empty EPC or a sentinel EPC ("000000",
\* "000001") returns False and leaves the unique-EPC map, the read history
\* and the total read count unchanged, whatever the store holds.
C5_SentinelIsNoOp ==
  [][(IsProcessTagCall
        /\ last'.tag.str_epc \in {<< >>, Str000000, Str000001})
     => (/\ last'.ret = FALSE
         /\ UNCHANGED <<epc_dictionary, epc_read_history, total_tag_count>>)
    ]_vars

\* the sentinel "000001" was given to a store one read below the ceiling
C5_Witness ==
  /\ last.op = "process_tag"
  /\ last.tag.str_epc = Str000001
  /\ total_tag_count = MAX_TOTAL_TAGS - 1
  /\ Len(epc_read_history) = MAX_TOTAL_TAGS - 1

\* C6: after every process_tag call the total read count is below
\* MAX_TOTAL_TAGS, and the call that brings the count to the ceiling
\* clears the unique map, the history and the total count before recording
\* its own read: afterwards map and history hold that read and nothing
\* else, and the count is back at the bottom (at most that one read).
C6_CeilingClears ==
  [][IsProcessTagCall
     => (/\ total_tag_count' < MAX_TOTAL_TAGS
         /\ (/\ last'.tag.str_epc \notin {<< >>, Str000000, Str000001}
             /\ total_tag_count = MAX_TOTAL_TAGS - 1)
            => (/\ total_tag_count' <= 1
                /\ DOMAIN epc_dictionary' = {last'.tag.str_epc}
                /\ epc_dictionary'[last'.tag.str_epc] = 1
                /\ Len(epc_read_history') = 1
                /\ epc_read_history'[1].epc = last'.tag.str_epc
                /\ last'.ret = TRUE))
    ]_vars

\* a call crossed the ceiling: the store holds one read of EpcB alone
\* although the run started with EpcA read thousands of times
C6_Witness ==
  /\ last.op = "process_tag"
  /\ last.tag.str_epc = EpcB
  /\ total_tag_count = 0
  /\ Len(epc_read_history) = 1

\* C7 as stated: after any sequence of process_tag and clear_data calls the
\* total read count equals the number of events in the read history.
C7_TotalEqualsHistory ==
  total_tag_count = Len(epc_read_history)

(***************************************************************************)
(* SpecSensor: handle_sensor_activation called one call at a time, as the  *)
(* CTS / DSR handlers and the sensor-port handler call it, with no scan    *)
(* running (so the on_sensor callback, _on_sensor_triggered, stops         *)
(* nothing).  Activation times are taken by different threads and are      *)
(* not assumed to arrive in order.                                         *)
(***************************************************************************)
InitSensor ==
  /\ SensorInit /\ StoreInit
  /\ CodecIdle /\ CtrlInit /\ ReasmIdle /\ EnvInit
  /\ AuxIdle

HandleSensorActivation ==
  /\ Len(call_log) < MaxCalls
  /\ \E is_sensor1 \in BOOLEAN, activation_time \in 0..MaxTime :
       LET r == handle_sensor_activation(Correlator, is_sensor1,
                                         activation_time)
           call == [is_sensor1 |-> is_sensor1,
                    activation_time |-> activation_time,
                    ret |-> r.ret, direction |-> r.direction,
                    time_diff |-> r.time_diff]
       IN  /\ SetCorrelator(r.model)
           /\ call_log' = Append(call_log, call)
           /\ sensor_events' =
                IF r.ret
                THEN Append(sensor_events,
                            [direction |-> r.direction,
                             time_diff |-> r.time_diff])
                ELSE sensor_events
  /\ UNCHANGED <<epc_dictionary, epc_read_history, total_tag_count>>
  /\ UNCHANGED <<now, calls, last>>
  /\ UNCHANGED <<codecVars, ctrlVars, reasmVars, auxVars>>

NextSensor == HandleSensorActivation

SpecSensor == InitSensor /\ [][NextSensor]_vars

\* the step is a call of handle_sensor_activation; ThisCall is that call
IsSensorCall == Len(call_log') = Len(call_log) + 1
ThisCall == call_log'[Len(call_log')]

\* C8: a call resolves (returns True and calls the sensor callback once)
\* only if both timestamps were set once it had stored its own, and it then
\* leaves both timestamps unset; a call that does not resolve calls no
\* callback and leaves its own sensor's timestamp set to its activation
\* time and the other sensor's timestamp as it was.
C8_ResolveOnlyWithBoth ==
  [][IsSensorCall =>
       LET other == IF ThisCall.is_sensor1 THEN s2_activated_time
                    ELSE s1_activated_time
           own_after == IF ThisCall.is_sensor1 THEN s1_activated_time'
                        ELSE s2_activated_time'
           other_after == IF ThisCall.is_sensor1 THEN s2_activated_time'
                          ELSE s1_activated_time'
       IN  IF ThisCall.ret
           THEN /\ other # None
                /\ s1_activated_time' = None /\ s2_activated_time' = None
                /\ Len(sensor_events') = Len(sensor_events) + 1
           ELSE /\ sensor_events' = sensor_events
                /\ own_after = Some(ThisCall.activation_time)
                /\ other_after = other
    ]_vars

\* sensor 2 resolved a pending sensor-1 activation and the state is Idle
C8_Witness ==
  /\ Len(call_log) >= 2
  /\ call_log[Len(call_log)].ret
  /\ ~call_log[Len(call_log)].is_sensor1
  /\ s1_activated_time = None /\ s2_activated_time = None
  /\ Len(sensor_events) = 1

\* C9: when a resolution pairs sensor-1 time t1 with sensor-2 time t2, the
\* direction reported to the callback (and kept as detected direction) is
\* OUT if t1 < t2 and IN otherwise, t1 = t2 included, and the delta
\* reported is |t2 - t1|, whichever sensor's call came last.
C9_DirectionAndDelta ==
  [][(IsSensorCall /\ ThisCall.ret) =>
       LET t1 == IF ThisCall.is_sensor1 THEN ThisCall.activation_time
                 ELSE s1_activated_time[1]
           t2 == IF ThisCall.is_sensor1 THEN s2_activated_time[1]
                 ELSE ThisCall.activation_time
           reported == sensor_events'[Len(sensor_events')]
       IN  /\ reported.direction = (IF t1 < t2 THEN "OUT" ELSE "IN")
           /\ reported.time_diff = (IF t2 >= t1 THEN t2 - t1 ELSE t1 - t2)
           /\ detected_direction' = reported.direction
    ]_vars

\* sensor 1's call came last but carried the earlier time: OUT, delta 2
C9_Witness ==
  /\ Len(call_log) = 2
  /\ call_log[2].ret /\ call_log[2].is_sensor1
  /\ call_log[2].activation_time + 2 = call_log[1].activation_time
  /\ sensor_events = <<[direction |-> "OUT", time_diff |-> 2]>>

\* C10: a lone sensor never resolves.  A call resolves exactly when the
\* call before it was an unresolved activation of the other sensor, so any
\* run of activations of one sensor produces no resolution and no reset:
\* after each of them the state is OneActivated holding that call's time.
\* The resolution that ends the run pairs the resolving call's time with
\* the time of the newest activation of the run.
C10_LoneSensorNeverResolves ==
  /\ \A i \in 1..Len(call_log) :
       /\ call_log[i].ret <=>
            (/\ i >= 2
             /\ ~call_log[i - 1].ret
             /\ call_log[i - 1].is_sensor1 # call_log[i].is_sensor1)
       /\ call_log[i].ret =>
            call_log[i].time_diff =
               Abs(call_log[i].activation_time
                     - call_log[i - 1].activation_time)
  /\ (call_log # << >> /\ ~call_log[Len(call_log)].ret) =>
       LET c == call_log[Len(call_log)]
       IN  /\ (IF c.is_sensor1 THEN s1_activated_time
               ELSE s2_activated_time) = Some(c.activation_time)
           /\ (IF c.is_sensor1 THEN s2_activated_time
               ELSE s1_activated_time) = None
  /\ Len(sensor_events) =
       Cardinality({i \in 1..Len(call_log) : call_log[i].ret})

\* sensor 1 fired at two different times, then sensor 2: the resolution
\* used the second sensor-1 time, not the first
C10_Witness ==
  /\ Len(call_log) = 3
  /\ call_log[1].is_sensor1 /\ call_log[2].is_sensor1
  /\ ~call_log[3].is_sensor1
  /\ call_log[1].activation_time = 0
  /\ call_log[2].activation_time = 2
  /\ call_log[3].activation_time = 3
  /\ ~call_log[1].ret /\ ~call_log[2].ret /\ call_log[3].ret
  /\ call_log[3].time_diff = 1
  /\ last_s1_activation = Some(2)

(***************************************************************************)
(* SpecReassembler: a byte stream reaches _on_data_received cut into       *)
(* chunks at arbitrary places (whatever the serial worker found waiting    *)
(* at each poll).                                                          *)
(***************************************************************************)
\* the bytes of the streams: the marker 0xA0, the length byte 4 and 0x17;
\* A0 04 17 17 17 17 is a well-formed frame (reader 0x17, command 0x17,
\* data 17), and a buffer holding its first five bytes has to wait
StreamBytes == {HEADER, 4, 23}

InitReassembler ==
  /\ stream \in SeqsUpTo(StreamBytes, MaxStream)
  /\ sent_stream = stream
  /\ fed = 0
  /\ frames = << >>
  /\ CodecIdle /\ CtrlInit /\ StoreInit /\ SensorInit /\ EnvInit
  /\ AuxIdle

\* the serial worker delivers the next n bytes of the stream
OnDataReceived ==
  /\ fed < Len(stream)
  /\ \E n \in 1..(Len(stream) - fed) :
       LET data == SubSeq(stream, fed + 1, fed + n)
           r == _on_data_received(World, response_buffer, data, now)
       IN  /\ SetWorld(r.world)
           /\ response_buffer' = r.buffer
           /\ frames' = frames \o r.frames
           /\ fed' = fed + n
  /\ UNCHANGED <<stream, sent_stream>>
  /\ UNCHANGED <<codecVars, sensorVars, envVars, auxVars>>

NextReassembler == OnDataReceived

SpecReassembler == InitReassembler /\ [][NextReassembler]_vars

\* the valid frames among fs, decoded, in order
RECURSIVE DecodedOf(_)
DecodedOf(fs) ==
  IF fs = << >> THEN << >>
  ELSE (IF parse_response(Head(fs)).valid THEN <<parse_response(Head(fs))>>
        ELSE << >>) \o DecodedOf(Tail(fs))

\* f is a well-formed frame: header, length byte, checksum all right
WellFormed(f) ==
  /\ Len(f) >= 5
  /\ f = create_frame(f[3], f[4], Slice(f, 4, Len(f) - 1))

\* C2: however the bytes delivered so far were cut into chunks, the frames
\* handed to _process_frame and the residual buffer are those obtained by
\* delivering the same bytes as one chunk.
C2_ChunkIndependent ==
  LET one_chunk == _process_buffer(SubSeq(stream, 1, fed), << >>)
  IN  /\ frames = one_chunk.frames
      /\ response_buffer = one_chunk.buffer

\* a garbage byte, a frame and one more byte were delivered (in chunks cut
\* anywhere): the frame came out whole and the last byte is in the buffer
C2_Witness ==
  /\ stream = <<23, HEADER, 4, 23, 23, 23, 23, HEADER>>
  /\ fed = Len(stream)
  /\ frames = <<<<HEADER, 4, 23, 23, 23, 23>>>>
  /\ response_buffer = <<HEADER>>

\* C3 as stated: whatever the N bytes before one well-formed frame are,
\* feeding the stream yields exactly that frame, decoded, and nothing else.
C3_ResyncAnyGarbage ==
  \A n \in 0..Len(stream) :
    (fed = Len(stream) /\ WellFormed(DropFirst(stream, n))) =>
       DecodedOf(frames) = <<parse_response(DropFirst(stream, n))>>

\* C3 amended: when none of the N bytes before the well-formed frame is the
\* marker 0xA0, feeding the stream hands exactly that frame to
\* _process_frame, it decodes to its reader id, command and data, and the
\* buffer is left empty: the N bytes are dropped.
C3_ResyncNoMarkerInGarbage ==
  \A n \in 0..Len(stream) :
    (/\ fed = Len(stream)
     /\ WellFormed(DropFirst(stream, n))
     /\ \A i \in 1..n : stream[i] # HEADER) =>
       LET f == DropFirst(stream, n)
       IN  /\ frames = <<f>>
           /\ DecodedOf(frames) =
                <<[valid |-> TRUE, reader_id |-> f[3], cmd |-> f[4],
                   data |-> Slice(f, 4, Len(f) - 1)]>>
           /\ response_buffer = << >>

\* two garbage bytes, then a frame, all delivered: one frame came out
C3_Witness ==
  /\ stream = <<23, 4, HEADER, 4, 23, 23, 23, 23>>
  /\ fed = Len(stream)
  /\ Len(frames) = 1
  /\ response_buffer = << >>


(***************************************************************************)
(* SpecTagData: parse_tag_data applied to the data field of a tag-read     *)
(* (0x8A) response, on payloads drawn from a bounded set.                  *)
(***************************************************************************)
MaxPayload == 5      \* longest payload given to parse_tag_data

\* first bytes 0x05 (channel 1, antenna 2), 0x1B (channel 6, antenna 4),
\* 0x1C (channel 7, antenna 1) and 0xFF (channel 63, antenna 4); 0xC8 as
\* an RSSI above 127
TagBytes == {5, 27, 28, 200, 255}

\* the part of the system that is not the parse_tag_data harness
tagRest == <<codecVars, ctrlVars, reasmVars, storeVars, sensorVars, envVars,
            analysisVars, serialVars, scanVars>>

InitTagData ==
  /\ tag_payload \in SeqsUpTo(TagBytes, MaxPayload)
  /\ tag_parsed = << >>
  /\ CodecIdle /\ CtrlInit /\ ReasmIdle /\ StoreInit /\ SensorInit /\ EnvInit
  /\ AnalysisIdle /\ SerialInit /\ ScanInit

ParseTagData ==
  /\ tag_parsed = << >>
  /\ tag_parsed' = <<parse_tag_data(CMD_FAST_SWITCH, tag_payload)>>
  /\ UNCHANGED tag_payload
  /\ UNCHANGED tagRest

NextTagData == ParseTagData

SpecTagData == InitTagData /\ [][NextTagData]_vars

\* "%.2f" of a frequency given in hundredths of a MHz
HundredthsStr(h) ==
  StrOfInt(h \div 100) \o <<".">> \o <<DecDigits[((h \div 10) % 10) + 1]>>
     \o <<DecDigits[(h % 10) + 1]>>

\* C11: on a payload of at least 4 bytes parse_tag_data returns
\* antenna = (byte0 mod 4) + 1, always in 1..4; with code = byte0 div 4 the
\* frequency 902.0 + (code - 7) * 0.5 when code >= 7 and 865.0 + code * 0.5
\* otherwise, printed with two decimals; PC = bytes 1-2 and EPC = bytes 3
\* up to but excluding the last, in upper-case hexadecimal; RSSI = the last
\* byte as an unsigned value.  On a shorter payload it returns no tag.
\* Byte0 0b00000101 with RSSI 0xC8 gives antenna 2, "865.50", rssi 200.
C11_TagFields ==
  tag_parsed # << >> =>
    LET d == tag_payload
        r == tag_parsed[1]
        n == Len(d)
        code == d[1] \div 4
    IN  IF n < 4 THEN r = None
        ELSE /\ r # None
             /\ r[1].antenna = (d[1] % 4) + 1
             /\ r[1].antenna \in 1..4
             /\ r[1].frequency =
                  HundredthsStr(IF code >= 7 THEN 90200 + (code - 7) * 50
                                ELSE 86500 + code * 50)
             /\ r[1].pc = HexUpper(<<d[2], d[3]>>)
             /\ r[1].epc = HexUpper([i \in 1..(n - 4) |-> d[i + 3]])
             /\ Len(r[1].epc) = 2 * (n - 4)
             /\ r[1].rssi = d[n]
             /\ r[1].rssi \in 0..255
             /\ (d[1] = 5 /\ d[n] = 200)
                  => /\ r[1].antenna = 2
                     /\ r[1].frequency = <<"8", "6", "5", ".", "5", "0">>
                     /\ r[1].rssi = 200

\* the payload 05 FF FF 1C C8 was parsed: antenna 2, "865.50", EPC "1C",
\* rssi 200
C11_Witness ==
  /\ tag_payload = <<5, 255, 255, 28, 200>>
  /\ tag_parsed # << >>
  /\ tag_parsed[1] # None
  /\ tag_parsed[1][1].antenna = 2
  /\ tag_parsed[1][1].frequency = <<"8", "6", "5", ".", "5", "0">>
  /\ tag_parsed[1][1].epc = <<"1", "C">>
  /\ tag_parsed[1][1].rssi = 200

(***************************************************************************)
(* Fractions.  The analysis computes in floating point; the model computes *)
(* the same expressions exactly, on fractions n/d with d > 0 kept in       *)
(* lowest terms.                                                           *)
(***************************************************************************)
RECURSIVE GCD(_, _)
GCD(a, b) == IF b = 0 THEN a ELSE GCD(b, a % b)

Rat(n, d) == LET g == GCD(Abs(n), d) IN [n |-> n \div g, d |-> d \div g]

RatOfInt(i) == [n |-> i, d |-> 1]
RAdd(a, b) == Rat(a.n * b.d + b.n * a.d, a.d * b.d)
RSub(a, b) == Rat(a.n * b.d - b.n * a.d, a.d * b.d)
RMul(a, b) == Rat(a.n * b.n, a.d * b.d)
\* a / b for b > 0
RDiv(a, b) == Rat(a.n * b.d, a.d * b.n)
RLt(a, b) == a.n * b.d < b.n * a.d
RLe(a, b) == a.n * b.d <= b.n * a.d
RMax(a, b) == IF RLt(a, b) THEN b ELSE a
RMin(a, b) == IF RLt(b, a) THEN b ELSE a

(***************************************************************************)
(* ReaderModel: the analysis engine (analyze_tags and its helpers).        *)
(***************************************************************************)
CONFIDENCE_THRESHOLD == RatOfInt(30)
ALPHA == Rat(1, 2)
SLOPE_MIN_THRESHOLD == Rat(1, 2)
SLOPE_MAX_THRESHOLD == RatOfInt(15)
VARIANCE_MIN_THRESHOLD == RatOfInt(2)
VARIANCE_MAX_THRESHOLD == RatOfInt(40)
SLOPE_WINDOW_MS == 2000      \* timedelta(seconds=2)
AMPL_WINDOW_MS == 4000       \* timedelta(seconds=4)
SLOPE_DISCARD_ABOVE == 30    \* if slope <= 30

LowerCase == <<"a", "b", "c", "d", "e", "f", "g", "h", "i", "j", "k", "l",
               "m", "n", "o", "p", "q", "r", "s", "t", "u", "v", "w", "x",
               "y", "z">>
UpperCase == <<"A", "B", "C", "D", "E", "F", "G", "H", "I", "J", "K", "L",
               "M", "N", "O", "P", "Q", "R", "S", "T", "U", "V", "W", "X",
               "Y", "Z">>

\* c.upper() for one character
upper(c) ==
  IF \E i \in 1..26 : LowerCase[i] = c
  THEN UpperCase[CHOOSE i \in 1..26 : LowerCase[i] = c]
  ELSE c

isspace(c) == c \in {" ", "\t", "\n", "\r", "\f"}

\* analyze_tags.canon_epc: drop white space and dashes, upper-case the rest
canon_epc(str) ==
  IF str = << >> THEN << >>
  ELSE LET kept == SelectSeq(str, LAMBDA c : ~isspace(c) /\ c # "-")
       IN  [i \in 1..Len(kept) |-> upper(kept[i])]

\* the characters of a canonical EPC in code-point order, and str < str
CodePoints == DecDigits \o UpperCase
Ord(c) == CHOOSE i \in 1..Len(CodePoints) : CodePoints[i] = c

RECURSIVE StrLt(_, _)
StrLt(a, b) ==
  IF b = << >> THEN FALSE
  ELSE IF a = << >> THEN TRUE
  ELSE IF Head(a) # Head(b) THEN Ord(Head(a)) < Ord(Head(b))
  ELSE StrLt(Tail(a), Tail(b))

\* the keys of _group_by(items, key_func), and the group of one key
GroupKeys(items, key_func(_)) == {key_func(items[i]) : i \in 1..Len(items)}
Group(items, key_func(_), key) ==
  SelectSeq(items, LAMBDA item : key_func(item) = key)

\* read_time.replace(microsecond=0), on milliseconds
WholeSecond(t) == (t \div 1000) * 1000

\* sorted(evs, key=lambda e: e.rssi): stable, ascending
RECURSIVE InsertByRssi(_, _)
InsertByRssi(sorted, ev) ==
  IF sorted = << >> THEN <<ev>>
  ELSE IF Head(sorted).rssi <= ev.rssi
       THEN <<Head(sorted)>> \o InsertByRssi(Tail(sorted), ev)
       ELSE <<ev>> \o sorted

RECURSIVE SortedByRssi(_)
SortedByRssi(evs) ==
  IF evs = << >> THEN << >>
  ELSE InsertByRssi(SortedByRssi(SubSeq(evs, 1, Len(evs) - 1)),
                    evs[Len(evs)])

\* the elements of a finite set of integers in ascending order
RECURSIVE Ascending(_)
Ascending(S) ==
  IF S = {} THEN << >>
  ELSE LET m == CHOOSE x \in S : \A y \in S : x <= y
       IN  <<m>> \o Ascending(S \ {m})

_get_median_rssi_per_second(events) ==
  LET secs == Ascending({WholeSecond(events[i].read_time) :
                            i \in 1..Len(events)})
      median_event(sec) ==
        LET evs == SelectSeq(events,
                             LAMBDA ev : WholeSecond(ev.read_time) = sec)
            sorted_evs == SortedByRssi(evs)
            count == Len(sorted_evs)
            median_rssi ==
              IF count % 2 = 1 THEN sorted_evs[(count \div 2) + 1].rssi
              ELSE (sorted_evs[count \div 2].rssi
                      + sorted_evs[(count \div 2) + 1].rssi) \div 2
        IN  [epc |-> sorted_evs[1].epc, rssi |-> median_rssi,
             read_time |-> sec, antenna |-> sorted_evs[1].antenna,
             frequency |-> << >>, pc |-> << >>]
  IN  [i \in 1..Len(secs) |-> median_event(secs[i])]

\* The events come from _get_median_rssi_per_second, so the elapsed times
\* (ev.read_time - t0).total_seconds() are whole seconds.
_calculate_linear_regression_slope(events) ==
  LET n == Len(events)
  IN  IF n < 2 THEN RatOfInt(0)
      ELSE
        LET t0 == events[1].read_time
            x == [i \in 1..n |-> (events[i].read_time - t0) \div 1000]
            y == [i \in 1..n |-> events[i].rssi]
            sum_x == SumSeq(x)
            sum_y == SumSeq(y)
            sum_xy == SumSeq([i \in 1..n |-> x[i] * y[i]])
            sum_xx == SumSeq([i \in 1..n |-> x[i] * x[i]])
            numerator == n * sum_xy - sum_x * sum_y
            denominator == n * sum_xx - sum_x * sum_x
        IN  IF denominator = 0 THEN RatOfInt(0)
            ELSE Rat(numerator, denominator)

\* statistics.variance(rssi_values), for two values or more
variance(rssi_values) ==
  LET n == Len(rssi_values)
      sum_y == SumSeq(rssi_values)
      sum_yy == SumSeq([i \in 1..n |-> rssi_values[i] * rssi_values[i]])
  IN  Rat(n * sum_yy - sum_y * sum_y, n * (n - 1))

_to_confidence(slope, var) ==
  LET zero == RatOfInt(0)
      one == RatOfInt(1)
      s_slope0 == RDiv(RSub(slope, SLOPE_MIN_THRESHOLD),
                       RSub(SLOPE_MAX_THRESHOLD, SLOPE_MIN_THRESHOLD))
      s_slope == RMax(zero, RMin(one, s_slope0))
      s_variance0 == RDiv(RSub(var, VARIANCE_MIN_THRESHOLD),
                          RSub(VARIANCE_MAX_THRESHOLD,
                               VARIANCE_MIN_THRESHOLD))
      s_variance == RMax(zero, RMin(one, s_variance0))
  IN  RMul(RAdd(RMul(s_slope, RSub(one, ALPHA)), RMul(s_variance, ALPHA)),
           RatOfInt(100))

_try_confidence(epc, antenna, slope_dict, variance_dict) ==
  LET key == <<epc, antenna>>
  IN  IF key \in DOMAIN slope_dict /\ key \in DOMAIN variance_dict
      THEN _to_confidence(slope_dict[key], variance_dict[key])
      ELSE RatOfInt(0)

_try_confidence_all(epc, slope_dict, variance_dict) ==
  IF epc \in DOMAIN slope_dict /\ epc \in DOMAIN variance_dict
  THEN _to_confidence(slope_dict[epc], variance_dict[epc])
  ELSE RatOfInt(0)

\* the slope recorded for a group of the slope window: << >> when the
\* group has fewer than two per-second samples or its slope is above 30
recorded_slope(events) ==
  LET median_events == _get_median_rssi_per_second(events)
  IN  IF Len(median_events) >= 2
      THEN LET slope == _calculate_linear_regression_slope(median_events)
           IN  IF RLe(slope, RatOfInt(SLOPE_DISCARD_ABOVE)) THEN Some(slope)
               ELSE None
      ELSE None

\* the variance recorded for a group of the variance window
recorded_variance(events) ==
  IF Len(events) >= 2
  THEN Some(variance([i \in 1..Len(events) |-> events[i].rssi]))
  ELSE None

epc_antenna_key(ev) == <<canon_epc(ev.epc), ev.antenna>>
epc_key(ev) == canon_epc(ev.epc)

slope_dict_of(history_for_slope) ==
  LET keys == GroupKeys(history_for_slope, epc_antenna_key)
      rec(k) == recorded_slope(Group(history_for_slope, epc_antenna_key, k))
  IN  [k \in {k \in keys : rec(k) # None} |-> rec(k)[1]]

slope_all_dict_of(history_for_slope) ==
  LET keys == GroupKeys(history_for_slope, epc_key)
      rec(k) == recorded_slope(Group(history_for_slope, epc_key, k))
  IN  [k \in {k \in keys : rec(k) # None} |-> rec(k)[1]]

variance_dict_of(history_for_ampl) ==
  LET keys == GroupKeys(history_for_ampl, epc_antenna_key)
      rec(k) == recorded_variance(Group(history_for_ampl, epc_antenna_key, k))
  IN  [k \in {k \in keys : rec(k) # None} |-> rec(k)[1]]

variance_all_dict_of(history_for_ampl) ==
  LET keys == GroupKeys(history_for_ampl, epc_key)
      rec(k) == recorded_variance(Group(history_for_ampl, epc_key, k))
  IN  [k \in {k \in keys : rec(k) # None} |-> rec(k)[1]]

\* how many of the three scores pass the threshold
threshold_count(rel_all, rel1, rel2) ==
  Cardinality({i \in 1..3 :
                 RLt(CONFIDENCE_THRESHOLD, <<rel_all, rel1, rel2>>[i])})

\* A mutant of the filter: one passing score is enough.
is_kept_one_is_enough(count) == count >= 1

\* if threshold_count >= 2
is_kept(count) == count >= 2

\* the sort key of results.sort(..., reverse=True): r1 comes before r2
result_before(r1, r2) ==
  LET m1 == RMax(r1.confidence_ant1, r1.confidence_ant2)
      m2 == RMax(r2.confidence_ant1, r2.confidence_ant2)
  IN  \/ RLt(r2.confidence_all, r1.confidence_all)
      \/ /\ r1.confidence_all = r2.confidence_all
         /\ \/ RLt(m2, m1)
            \/ m1 = m2 /\ StrLt(r2.epc, r1.epc)

RECURSIVE sorted_results(_)
sorted_results(R) ==
  IF R = {} THEN << >>
  ELSE LET first == CHOOSE r \in R :
                      \A o \in R \ {r} : result_before(r, o)
       IN  <<first>> \o sorted_results(R \ {first})

\* the events of snapshot read in the window_ms before stop_time
history_in(snapshot, window_ms, stop_time) ==
  SelectSeq(snapshot, LAMBDA ev : /\ stop_time - window_ms <= ev.read_time
                                  /\ ev.read_time <= stop_time)

\* the three scores (rel1, rel2, rel_all) of every EPC with a recorded
\* slope or variance
scores_of(slope_dict, variance_dict, slope_all_dict, variance_all_dict) ==
  LET all_epcs == {k[1] : k \in DOMAIN slope_dict}
                    \cup {k[1] : k \in DOMAIN variance_dict}
                    \cup DOMAIN slope_all_dict
                    \cup DOMAIN variance_all_dict
  IN  [epc \in all_epcs |->
         [rel1 |-> _try_confidence(epc, 1, slope_dict, variance_dict),
          rel2 |-> _try_confidence(epc, 2, slope_dict, variance_dict),
          rel_all |-> _try_confidence_all(epc, slope_all_dict,
                                          variance_all_dict)]]

\* the EPCs kept, as AnalysisResult records in the order returned
analysis_of(m, scores) ==
  LET kept == {epc \in DOMAIN scores :
                 is_kept(threshold_count(scores[epc].rel_all,
                                         scores[epc].rel1,
                                         scores[epc].rel2))}
  IN  [results |->
         sorted_results({[epc |-> epc,
                          confidence_ant1 |-> scores[epc].rel1,
                          confidence_ant2 |-> scores[epc].rel2,
                          confidence_all |-> scores[epc].rel_all,
                          direction |-> m.detected_direction] :
                           epc \in kept}),
       scores |-> scores]

\* analyze_tags() called at clock value stop_time: the returned list, and
\* the three scores (rel1, rel2, rel_all) computed for every EPC
analyze_tags(m, stop_time) ==
  analysis_of(m, scores_of(
    slope_dict_of(history_in(m.epc_read_history, SLOPE_WINDOW_MS,
                             stop_time)),
    variance_dict_of(history_in(m.epc_read_history, AMPL_WINDOW_MS,
                                stop_time)),
    slope_all_dict_of(history_in(m.epc_read_history, SLOPE_WINDOW_MS,
                                 stop_time)),
    variance_all_dict_of(history_in(m.epc_read_history, AMPL_WINDOW_MS,
                                    stop_time))))

(***************************************************************************)
(* SpecAnalysis: analyze_tags applied to read histories drawn from two     *)
(* bounded families: one tag read once a second with a steady RSSI step,   *)
(* and short histories of arbitrary reads.                                 *)
(***************************************************************************)
MaxStep == 31        \* largest RSSI step per second of a steady series
MaxEvents == 3       \* longest history of arbitrary reads

\* "e2-01": an EPC as a caller may give it; canon_epc makes it "E201"
EpcBRaw == <<"e", "2", "-", "0", "1">>

SeriesBase == 100    \* first RSSI of a steady series

\* a read-history event as process_tag records it
EPCReadEvent(epc, rssi, read_time, antenna) ==
  [epc |-> epc, rssi |-> rssi, read_time |-> read_time, antenna |-> antenna,
   frequency |-> FormatFrequency(1731), pc |-> Str3000]

\* three reads of EpcA on antenna 1, one a second, the RSSI changing by
\* step every second
SteadySeries(step) ==
  [i \in 1..3 |-> EPCReadEvent(EpcA, SeriesBase + (i - 1) * step,
                               (i - 1) * 1000, 1)]

\* the reads of the arbitrary histories, and the time since the read before
ReadChoices ==
  ([epc : {EpcA}, antenna : {1, 2}, rssi : {192, 200}]
     \cup [epc : {EpcBRaw}, antenna : {1}, rssi : {200}])
  \X {0, 1000}

RECURSIVE HistoryOf(_)
HistoryOf(choices) ==
  IF choices = << >> THEN << >>
  ELSE LET n == Len(choices)
           before == HistoryOf(SubSeq(choices, 1, n - 1))
           t == (IF n = 1 THEN 0 ELSE before[n - 1].read_time)
                  + choices[n][2]
           c == choices[n][1]
       IN  Append(before, EPCReadEvent(c.epc, c.rssi, t, c.antenna))

\* the store process_tag leaves after recording the events of history
StoreOfHistory(history) ==
  LET epcs == {history[i].epc : i \in 1..Len(history)}
  IN  [epc_dictionary |->
         [e \in epcs |->
            Cardinality({i \in 1..Len(history) : history[i].epc = e})],
       epc_read_history |-> history,
       total_tag_count |-> Len(history),
       detected_direction |-> "X"]

analysisRest == <<codecVars, ctrlVars, reasmVars, sensorVars, tagVars,
                 serialVars, scanVars>>

InitAnalysis ==
  /\ \/ \E step \in (0 - MaxStep)..MaxStep :
          /\ epc_read_history = SteadySeries(step)
          /\ now = 2000
     \/ \E choices \in SeqsUpTo(ReadChoices, MaxEvents) :
          /\ epc_read_history = HistoryOf(choices)
          /\ now \in {t + late :
                        t \in {IF choices = << >> THEN 0
                               ELSE HistoryOf(choices)[Len(choices)].read_time},
                        late \in {0, 2000}}
  /\ epc_dictionary = StoreOfHistory(epc_read_history).epc_dictionary
  /\ total_tag_count = Len(epc_read_history)
  /\ detected_direction = "X"
  /\ calls = 0 /\ last = [op |-> "none"] /\ call_log = << >>
  /\ analysis = << >>
  /\ CodecIdle /\ CtrlInit /\ ReasmIdle /\ SensorInit /\ TagIdle
  /\ SerialInit /\ ScanInit

AnalyzeTags ==
  /\ analysis = << >>
  /\ analysis' = <<analyze_tags(Store, now)>>
  /\ UNCHANGED <<storeVars, envVars>>
  /\ UNCHANGED analysisRest

NextAnalysis == AnalyzeTags

SpecAnalysis == InitAnalysis /\ [][NextAnalysis]_vars

\* analyze_tags has run on the steady series with this step
AnalysedSeries(step) ==
  /\ analysis # << >>
  /\ epc_read_history = SteadySeries(step)
  /\ now = 2000

\* the combined score analyze_tags computes for the steady series
CombinedOfSeries(step) ==
  analyze_tags(StoreOfHistory(SteadySeries(step)), 2000).scores[EpcA].rel_all

\* C12 as stated: for a tag whose RSSI falls steadily, k per second, with
\* variance (k * k here) at least V_min, the combined score strictly
\* increases with the slope magnitude k within [0.5, 15.0] and is 100 for
\* magnitudes above 15.
C12_SteeperFallScoresHigher ==
  \A k \in 2..MaxStep :
    AnalysedSeries(0 - k) =>
      LET score == analysis[1].scores[EpcA].rel_all
      IN  /\ (k + 1 <= 15) => RLt(score, CombinedOfSeries(0 - (k + 1)))
          /\ (k > 15) => score = RatOfInt(100)

\* C14: analyze_tags returns an EPC if and only if at least two of its
\* three scores (antenna 1, antenna 2, combined) are strictly greater than
\* 30.0, and a score is 0 whenever the slope or the variance of its key is
\* missing; each returned entry carries the three scores of its EPC.
C14_KeptIffTwoScoresPass ==
  analysis # << >> =>
    LET a == analysis[1]
        returned == {a.results[i].epc : i \in 1..Len(a.results)}
        in_window(ev, ms) == now - ms <= ev.read_time /\ ev.read_time <= now
        for_slope == SelectSeq(epc_read_history,
                               LAMBDA ev : in_window(ev, SLOPE_WINDOW_MS))
        for_ampl == SelectSeq(epc_read_history,
                              LAMBDA ev : in_window(ev, AMPL_WINDOW_MS))
        missing(e, ant) ==
          \/ <<e, ant>> \notin DOMAIN slope_dict_of(for_slope)
          \/ <<e, ant>> \notin DOMAIN variance_dict_of(for_ampl)
        missing_all(e) ==
          \/ e \notin DOMAIN slope_all_dict_of(for_slope)
          \/ e \notin DOMAIN variance_all_dict_of(for_ampl)
        passing(e) ==
          (IF a.scores[e].rel1.n * 1 > 30 * a.scores[e].rel1.d THEN 1 ELSE 0)
          + (IF a.scores[e].rel2.n * 1 > 30 * a.scores[e].rel2.d THEN 1 ELSE 0)
          + (IF a.scores[e].rel_all.n * 1 > 30 * a.scores[e].rel_all.d
             THEN 1 ELSE 0)
    IN  /\ returned \subseteq DOMAIN a.scores
        /\ Len(a.results) = Cardinality(returned)
        /\ \A i \in 1..Len(epc_read_history) :
             canon_epc(epc_read_history[i].epc) \in returned
               => canon_epc(epc_read_history[i].epc) \in DOMAIN a.scores
        /\ \A e \in DOMAIN a.scores :
             /\ e \in returned <=> passing(e) >= 2
             /\ missing(e, 1) => a.scores[e].rel1.n = 0
             /\ missing(e, 2) => a.scores[e].rel2.n = 0
             /\ missing_all(e) => a.scores[e].rel_all.n = 0
        /\ \A i \in 1..Len(a.results) :
             LET r == a.results[i]
             IN  /\ r.confidence_ant1 = a.scores[r.epc].rel1
                 /\ r.confidence_ant2 = a.scores[r.epc].rel2
                 /\ r.confidence_all = a.scores[r.epc].rel_all

\* EpcA was returned with the antenna-1 and the combined score above 30 and
\* the antenna-2 score 0, no read of antenna 2 being in the history
C14_Witness ==
  /\ analysis # << >>
  /\ Len(analysis[1].results) = 1
  /\ analysis[1].results[1].epc = EpcA
  /\ RLt(CONFIDENCE_THRESHOLD, analysis[1].results[1].confidence_ant1)
  /\ RLt(CONFIDENCE_THRESHOLD, analysis[1].results[1].confidence_all)
  /\ analysis[1].results[1].confidence_ant2 = RatOfInt(0)
  /\ \A i \in 1..Len(epc_read_history) : epc_read_history[i].antenna = 1

(***************************************************************************)
(* SerialManager and the connection slots of ReaderController.  The        *)
(* foreground thread runs one slot at a time (ui_pc = "idle" between       *)
(* slots); a slot that waits - for the port to open, for a join - is two   *)
(* steps, so that the workers run in between.  A port is "None", or a      *)
(* Serial object that is "closed" or "open".  The operating system decides *)
(* whether a port opens and how a write ends.                              *)
(***************************************************************************)
MaxThreads == 2      \* worker threads started in one run

CMD_SET_POWER == 118         \* 0x76
BROADCAST == 255             \* reader id 0xFF
MIN_POWER_DBM == 0
MAX_POWER_DBM == 33

\* a worker thread at the top of its loop
NewThread ==
  [pc |-> "loop", ret |-> "loop", cts |-> FALSE, dsr |-> FALSE,
   pending |-> << >>]

is_alive(thread) == thread.pc # "dead"

\* log_message.emit(text, level); arg holds the values formatted into text
Log(text, arg, level) == [text |-> text, arg |-> arg, level |-> level]

\* ReaderController.connect_reader, up to the port being opened
ConnectReader ==
  /\ ui_pc = "idle"
  /\ Len(reader_threads) + Len(sensor_threads) < MaxThreads
  /\ \/ \* check_linux_permissions refuses the port
        /\ last' = [op |-> "connect_reader", ret |-> FALSE,
                    log |-> <<Log("permission", << >>, 1)>>]
        /\ UNCHANGED <<reader_port, ui_pc>>
     \/ \* an open port is closed, and a new Serial object is made
        /\ reader_port' = "closed"
        /\ ui_pc' = "connect_reader_open"
        /\ UNCHANGED last
  /\ UNCHANGED <<sensor_port, is_reading, prev_cts, prev_dsr, reader_threads,
                 sensor_threads, serial_log, sampled>>
  /\ UNCHANGED <<now, calls, call_log>>
  /\ UNCHANGED <<codecVars, ctrlVars, reasmVars, storeVars, sensorVars,
                 tagVars, analysisVars, scanVars>>

\* connect_reader from self._reader_port.open() on
ConnectReaderOpen ==
  /\ ui_pc = "connect_reader_open"
  /\ \/ /\ reader_port' = "open"
        /\ is_reading' = TRUE
        /\ reader_threads' = Append(reader_threads, NewThread)
        /\ last' = [op |-> "connect_reader", ret |-> TRUE,
                    log |-> <<Log("Connected to", << >>, 2)>>]
     \/ \* open() raises SerialException
        /\ last' = [op |-> "connect_reader", ret |-> FALSE,
                    log |-> <<Log("Connection failed", << >>, 1)>>]
        /\ UNCHANGED <<reader_port, is_reading, reader_threads>>
  /\ ui_pc' = "idle"
  /\ UNCHANGED <<sensor_port, prev_cts, prev_dsr, sensor_threads, serial_log,
                 sampled>>
  /\ UNCHANGED <<now, calls, call_log>>
  /\ UNCHANGED <<codecVars, ctrlVars, reasmVars, storeVars, sensorVars,
                 tagVars, analysisVars, scanVars>>

\* ReaderController.disconnect_reader with no scan running, up to the join
\* of self._reader_thread
DisconnectReader ==
  /\ ui_pc = "idle"
  /\ ~is_inventory_running
  /\ is_reading' = FALSE
  /\ ui_pc' = "disconnect_reader_join"
  /\ UNCHANGED <<reader_port, sensor_port, prev_cts, prev_dsr, reader_threads,
                 sensor_threads, serial_log, sampled>>
  /\ UNCHANGED envVars
  /\ UNCHANGED <<codecVars, ctrlVars, reasmVars, storeVars, sensorVars,
                 tagVars, analysisVars, scanVars>>

\* disconnect_reader after the join: the thread has ended, or was never
\* started, or the 2 s of join(timeout=2.0) have passed
DisconnectReaderClose ==
  /\ ui_pc = "disconnect_reader_join"
  /\ reader_port' = "None"
  /\ ui_pc' = "idle"
  /\ last' = [op |-> "disconnect_reader", ret |-> TRUE,
              log |-> <<Log("Reader disconnected", << >>, 0)>>]
  /\ UNCHANGED <<sensor_port, is_reading, prev_cts, prev_dsr, reader_threads,
                 sensor_threads, serial_log, sampled>>
  /\ UNCHANGED <<now, calls, call_log>>
  /\ UNCHANGED <<codecVars, ctrlVars, reasmVars, storeVars, sensorVars,
                 tagVars, analysisVars, scanVars>>

\* how one port.write(data) ends: the port takes all of data, or the write
\* fails (SerialTimeoutException, device gone) after the first taken bytes
WriteOutcomes(data) ==
  {[complete |-> TRUE, taken |-> Len(data)]}
    \cup {[complete |-> FALSE, taken |-> j] : j \in 0..(Len(data) - 1)}

\* SerialManager.send_command: the value returned, the bytes that reached
\* the port, and the messages given to the error callback
send_command(port, data, outcome) ==
  IF port = "open"
  THEN IF outcome.complete
       THEN [ret |-> TRUE, written |-> data, log |-> << >>]
       ELSE [ret |-> FALSE, written |-> SubSeq(data, 1, outcome.taken),
             log |-> <<Log("Send error", << >>, 1)>>]
  ELSE [ret |-> FALSE, written |-> << >>, log |-> << >>]

\* A mutant of the range test: 34 dBm passes.
power_in_range_to_34(power_dbm) ==
  MIN_POWER_DBM <= power_dbm /\ power_dbm <= MAX_POWER_DBM + 1

\* 0 <= power_dbm <= 33
power_in_range(power_dbm) ==
  MIN_POWER_DBM <= power_dbm /\ power_dbm <= MAX_POWER_DBM

\* ReaderProtocol.build_set_power: the frame, or the ValueError raised
build_set_power(reader_id, power_dbm) ==
  IF ~power_in_range(power_dbm)
  THEN [raised |-> TRUE,
        error |-> Log("Power must be 0-33 dBm, got", <<power_dbm>>, 1)]
  ELSE [raised |-> FALSE,
        frame |-> create_frame(reader_id, CMD_SET_POWER, <<power_dbm>>)]

\* ReaderProtocol.build_set_power_per_antenna
build_set_power_per_antenna(reader_id, ant1, ant2, ant3, ant4) ==
  LET powers == <<ant1, ant2, ant3, ant4>>
      bad == {i \in 1..4 : ~power_in_range(powers[i])}
  IN  IF bad # {}
      THEN LET i == CHOOSE i \in bad : \A j \in bad : i <= j
           IN  [raised |-> TRUE,
                error |-> Log("ANT power must be 0-33 dBm, got",
                              <<i, powers[i]>>, 1)]
      ELSE [raised |-> FALSE,
            frame |-> create_frame(reader_id, CMD_SET_POWER, powers)]

\* ReaderController.set_power: what reached the port and what was logged
set_power(power_dbm, port, outcome) ==
  IF ~power_in_range(power_dbm)
  THEN [written |-> << >>,
        log |-> <<Log("Power must be 0-33 dBm, got", <<power_dbm>>, 1)>>]
  ELSE
    LET cmd == build_set_power(BROADCAST, power_dbm)
    IN  IF cmd.raised THEN [written |-> << >>, log |-> <<cmd.error>>]
        ELSE LET sent == send_command(port, cmd.frame, outcome)
             IN  [written |-> sent.written,
                  log |-> sent.log \o
                    <<IF sent.ret
                      THEN Log("Setting power to dBm", <<power_dbm>>, 0)
                      ELSE Log("Failed to send power command", << >>, 1)>>]

\* ReaderController.set_power_per_antenna
set_power_per_antenna(ant1, ant2, ant3, ant4, port, outcome) ==
  LET cmd == build_set_power_per_antenna(BROADCAST, ant1, ant2, ant3, ant4)
  IN  IF cmd.raised THEN [written |-> << >>, log |-> <<cmd.error>>]
      ELSE LET sent == send_command(port, cmd.frame, outcome)
           IN  [written |-> sent.written,
                log |-> sent.log \o
                  <<IF sent.ret
                    THEN Log("Setting per-antenna power", <<ant1, ant2, ant3,
                                                            ant4>>, 0)
                    ELSE Log("Failed to send power command", << >>, 1)>>]

(***************************************************************************)
(* SpecPower: the power commands given by the foreground thread, with the  *)
(* reader connected or not.                                                *)
(***************************************************************************)
\* the power values given: the ends of the range and the values next to them
PowerValues == {MIN_POWER_DBM - 1, MIN_POWER_DBM, MAX_POWER_DBM,
                MAX_POWER_DBM + 1}

\* the per-antenna values given: every mix of 0 and 34, the top of the
\* range, and a negative value
PowerTuples ==
  [1..4 -> {MIN_POWER_DBM, MAX_POWER_DBM + 1}]
    \cup {<<MAX_POWER_DBM, MAX_POWER_DBM, MAX_POWER_DBM, MAX_POWER_DBM>>,
          <<MIN_POWER_DBM, MIN_POWER_DBM, MIN_POWER_DBM, MIN_POWER_DBM - 1>>}

powerRest == <<codecVars, ctrlVars, reasmVars, storeVars, sensorVars, tagVars,
              analysisVars, scanVars>>

InitPower ==
  /\ SerialInit
  /\ CodecIdle /\ CtrlInit /\ ReasmIdle /\ StoreInit /\ SensorInit /\ EnvInit
  /\ TagIdle /\ AnalysisIdle /\ ScanInit

SetPower ==
  /\ ui_pc = "idle"
  /\ \E power_dbm \in PowerValues,
        outcome \in WriteOutcomes(create_frame(BROADCAST, CMD_SET_POWER,
                                               <<0>>)) :
       LET r == set_power(power_dbm, reader_port, outcome)
       IN  last' = [op |-> "set_power", args |-> <<power_dbm>>,
                    port |-> reader_port, complete |-> outcome.complete,
                    written |-> r.written, log |-> r.log]
  /\ UNCHANGED serialVars
  /\ UNCHANGED <<now, calls, call_log>>
  /\ UNCHANGED powerRest

SetPowerPerAntenna ==
  /\ ui_pc = "idle"
  /\ \E powers \in PowerTuples,
        outcome \in WriteOutcomes(create_frame(BROADCAST, CMD_SET_POWER,
                                               <<0, 0, 0, 0>>)) :
       LET r == set_power_per_antenna(powers[1], powers[2], powers[3],
                                      powers[4], reader_port, outcome)
       IN  last' = [op |-> "set_power_per_antenna", args |-> powers,
                    port |-> reader_port, complete |-> outcome.complete,
                    written |-> r.written, log |-> r.log]
  /\ UNCHANGED serialVars
  /\ UNCHANGED <<now, calls, call_log>>
  /\ UNCHANGED powerRest

NextPower ==
  \/ ConnectReader \/ ConnectReaderOpen
  \/ DisconnectReader \/ DisconnectReaderClose
  \/ SetPower \/ SetPowerPerAntenna

SpecPower == InitPower /\ [][NextPower]_vars

\* the last call was a power command
IsPowerCall == last.op \in {"set_power", "set_power_per_antenna"}

\* every power value given to the last call is within 0..33
AllWithin == \A i \in 1..Len(last.args) : last.args[i] \in 0..33

\* bytes is one whole 0x76 frame carrying exactly the given power values
IsPowerFrameOf(bytes, powers) ==
  /\ Len(bytes) = Len(powers) + 5
  /\ bytes[1] = HEADER
  /\ bytes[2] = Len(powers) + 3
  /\ bytes[3] = BROADCAST
  /\ bytes[4] = CMD_SET_POWER
  /\ \A i \in 1..Len(powers) : bytes[4 + i] = powers[i]
  /\ SumSeq(bytes) % 256 = 0

\* the call surfaced an error message
ErrorSurfaced == \E i \in 1..Len(last.log) : last.log[i].level = 1

\* C13 as stated: a power value outside 0..33 is rejected before anything
\* is sent (nothing written, an error message surfaced); values inside
\* 0..33 result in exactly one complete 0x76 frame being sent.
C13_RejectedOrOneFrame ==
  IsPowerCall =>
    IF AllWithin THEN IsPowerFrameOf(last.written, last.args)
    ELSE last.written = << >> /\ ErrorSurfaced

\* C13, amended: outside 0..33 nothing is written and an error message is
\* surfaced; inside 0..33, on an open reader port whose write completes,
\* exactly one complete 0x76 frame with the given values is written; on a
\* port that is not open nothing is written, on a failing write only a
\* proper prefix of the frame, and in both cases an error is surfaced.
C13_RejectedOrOneFrameIfSendable ==
  IsPowerCall =>
    IF ~AllWithin THEN last.written = << >> /\ ErrorSurfaced
    ELSE IF last.port = "open" /\ last.complete
         THEN IsPowerFrameOf(last.written, last.args) /\ ~ErrorSurfaced
    ELSE /\ ErrorSurfaced
         /\ IF last.port # "open" THEN last.written = << >>
            ELSE /\ Len(last.written) < Len(last.args) + 5
                 /\ \A i \in 1..Len(last.written) :
                      last.written[i] =
                        (<<HEADER, Len(last.args) + 3, BROADCAST,
                           CMD_SET_POWER>> \o last.args)[i]

\* set_power_per_antenna(0, 0, 34, 0) was called on an open port: nothing
\* was written and the ANT3 error was surfaced
C13_Witness ==
  /\ last.op = "set_power_per_antenna"
  /\ last.args = <<0, 0, 34, 0>>
  /\ last.port = "open"
  /\ last.written = << >>
  /\ last.log = <<Log("ANT power must be 0-33 dBm, got", <<3, 34>>, 1)>>


(***************************************************************************)
(* SpecScan: one reader connection and its scans.  The foreground thread   *)
(* (thread 0) runs the slots start_inventory and stop_inventory and the    *)
(* timer's _flush_ui_updates; the reader worker (thread 1) hands frames to *)
(* _on_data_received and calls _on_cts_changed / _on_dsr_changed, from     *)
(* which _on_sensor_triggered calls stop_inventory on the worker itself.   *)
(* The slots are cut where another thread can see a difference.            *)
(***************************************************************************)
MaxScans == 2        \* scans started in one run
MaxTagFrames == 1    \* tag frames the reader sends in one run
MaxEdges == 2        \* rising edges of the sensor lines in one run
MaxPolls == 2        \* polls the send-loops send in one run

MAX_TAGS_PER_UPDATE == 50

UI == 0              \* the foreground thread; worker w is thread w >= 1

Min(a, b) == IF a <= b THEN a ELSE b

\* a fast-switch frame of the reader: antenna 2, EPC "E2", RSSI byte 200
TagFrame == create_frame(1, CMD_FAST_SWITCH, <<5, 48, 0, 226, 200>>)

RECURSIVE Repeat(_, _)
Repeat(s, n) == IF n = 0 THEN << >> ELSE s \o Repeat(s, n - 1)

\* config['antennas'] as the inventory page gives it
AntennaChoices == {<<TRUE, TRUE, FALSE, FALSE>>, <<TRUE, FALSE, FALSE, FALSE>>}

Enabled01(b) == IF b THEN 1 ELSE 0

\* A mutant of the configuration: every antenna is enabled.
antenna_config_of_all(antennas) == <<0, 1, 1, 1, 2, 1, 3, 1, 0, 0>>

\* the bytearray built by start_inventory
antenna_config_of(antennas) ==
  <<0, Enabled01(antennas[1]), 1, Enabled01(antennas[2]),
    2, Enabled01(antennas[3]), 3, Enabled01(antennas[4]), 0, 0>>

\* thread t > 0 is reader worker t, thread t < 0 is sensor worker -t
PcOf(t) ==
  IF t = UI THEN ui_pc
  ELSE IF t > 0 THEN reader_threads[t].pc
  ELSE sensor_threads[0 - t].pc

SetPc(t, pc) ==
  /\ ui_pc' = IF t = UI THEN pc ELSE ui_pc
  /\ reader_threads' =
       IF t > 0 THEN [reader_threads EXCEPT ![t].pc = pc] ELSE reader_threads
  /\ sensor_threads' =
       IF t < 0 THEN [sensor_threads EXCEPT ![0 - t].pc = pc]
       ELSE sensor_threads

\* where a thread goes on when stop_inventory returns to its caller
Rest(t) ==
  IF t = UI THEN "idle"
  ELSE IF t > 0 THEN reader_threads[t].ret
  ELSE sensor_threads[0 - t].ret

ScanThreads ==
  {UI} \cup (1..Len(reader_threads))
       \cup {0 - s : s \in 1..Len(sensor_threads)}

\* the fields _flush_ui_updates reads and writes
Flusher ==
  [is_inventory_running |-> is_inventory_running,
   tag_queue |-> tag_queue,
   counts_dirty |-> counts_dirty,
   signals |-> signals,
   last_unique_count |-> last_unique_count,
   last_total_count |-> last_total_count,
   epc_count |-> Cardinality(DOMAIN epc_dictionary),
   total_tag_count |-> total_tag_count]

SetFlusher(f) ==
  /\ tag_queue' = f.tag_queue
  /\ counts_dirty' = f.counts_dirty
  /\ signals' = f.signals
  /\ last_unique_count' = f.last_unique_count
  /\ last_total_count' = f.last_total_count

_flush_ui_updates(f) ==
  IF ~f.is_inventory_running THEN f
  ELSE
    LET n == Min(Len(f.tag_queue), MAX_TAGS_PER_UPDATE)
        tags_to_update == Slice(f.tag_queue, 0, n)
        f1 == [f EXCEPT !.tag_queue = DropFirst(@, n),
                        !.signals =
                          IF tags_to_update # << >>
                          THEN Append(@, [signal |-> "tags_batch_received",
                                          tags |-> tags_to_update])
                          ELSE @]
    IN  IF f1.counts_dirty
        THEN IF \/ f1.epc_count # f1.last_unique_count
                \/ f1.total_tag_count # f1.last_total_count
             THEN [f1 EXCEPT !.last_unique_count = f1.epc_count,
                             !.last_total_count = f1.total_tag_count,
                             !.signals =
                               Append(@, [signal |-> "counts_updated",
                                          unique |-> f1.epc_count,
                                          total |-> f1.total_tag_count]),
                             !.counts_dirty = FALSE]
             ELSE [f1 EXCEPT !.counts_dirty = FALSE]
        ELSE f1

InitScan ==
  /\ stream = Repeat(TagFrame, MaxTagFrames)
  /\ sent_stream = stream
  /\ fed = 0
  /\ frames = << >>
  /\ CodecIdle /\ CtrlInit /\ StoreInit /\ SensorInit /\ EnvInit
  /\ TagIdle /\ AnalysisIdle /\ SerialInit /\ ScanInit

\* connect_reader, for the one connection of the run
ConnectReaderOnce ==
  /\ reader_threads = << >>
  /\ ConnectReader

\* start_inventory(config) up to _view.set_inventory_running(True)
StartInventory ==
  /\ ui_pc = "idle"
  /\ scan_no < MaxScans
  /\ \E antennas \in AntennaChoices :
       IF is_inventory_running
       THEN /\ last' = [op |-> "start_inventory", started |-> FALSE,
                        log |-> << >>]
            /\ UNCHANGED <<is_inventory_running, ui_pc, antenna_config,
                           view_running, scan_no, call_log>>
       ELSE IF reader_port # "open"
       THEN /\ last' = [op |-> "start_inventory", started |-> FALSE,
                        log |-> <<Log("Reader not connected", << >>, 1)>>]
            /\ UNCHANGED <<is_inventory_running, ui_pc, antenna_config,
                           view_running, scan_no, call_log>>
       ELSE /\ antenna_config' = antenna_config_of(antennas)
            /\ is_inventory_running' = TRUE
            /\ view_running' = TRUE
            /\ scan_no' = scan_no + 1
            /\ ui_pc' = "start_clear"
            /\ call_log' = Append(call_log, [op |-> "start_inventory",
                                             antennas |-> antennas])
            /\ UNCHANGED last
  /\ UNCHANGED <<response_buffer, tag_queue, counts_dirty, signals>>
  /\ UNCHANGED <<inventory_thread, inventory_threads, timer_active,
                 last_unique_count, last_total_count, queued, wire>>
  /\ UNCHANGED <<reader_port, sensor_port, is_reading, prev_cts, prev_dsr,
                 reader_threads, sensor_threads, serial_log, sampled>>
  /\ UNCHANGED <<now, calls>>
  /\ UNCHANGED <<codecVars, reasmVars, storeVars, sensorVars, tagVars,
                 analysisVars>>

\* start_inventory from the clearing of the tag queue on
StartInventoryClear ==
  /\ ui_pc = "start_clear"
  /\ tag_queue' = << >>
  /\ counts_dirty' = FALSE
  /\ timer_active' = TRUE
  /\ inventory_threads' = Append(inventory_threads, "loop")
  /\ inventory_thread' = Len(inventory_threads) + 1
  /\ last' = [op |-> "start_inventory", started |-> TRUE,
              log |-> <<Log("Inventory started", << >>, 2)>>]
  /\ ui_pc' = "idle"
  /\ UNCHANGED <<response_buffer, is_inventory_running, signals>>
  /\ UNCHANGED <<antenna_config, last_unique_count, last_total_count,
                 view_running, scan_no, queued, wire>>
  /\ UNCHANGED <<reader_port, sensor_port, is_reading, prev_cts, prev_dsr,
                 reader_threads, sensor_threads, serial_log, sampled>>
  /\ UNCHANGED <<now, calls, call_log>>
  /\ UNCHANGED <<codecVars, reasmVars, storeVars, sensorVars, tagVars,
                 analysisVars>>

\* ReaderProtocol.build_fast_switch_inventory
build_fast_switch_inventory(reader_id, ant_config) ==
  create_frame(reader_id, CMD_FAST_SWITCH, ant_config)

\* how the write of one poll ends: all of it is taken, or the write fails
\* before the first byte, or in the middle of the configuration
PollOutcomes(cmd) ==
  {o \in WriteOutcomes(cmd) : o.complete \/ o.taken \in {0, 9}}

\* A mutant of the loop's condition: the flag is not looked at.
loop_condition_always(running) == TRUE

\* while self._is_inventory_running
loop_condition(running) == running

\* one turn of _inventory_loop as the scan sees it: the thread goes on
\* while it finds the flag set and ends when it finds the flag clear; the
\* polls it sends in between are not recorded on wire
InventoryLoop ==
  /\ \E i \in 1..Len(inventory_threads) :
       /\ inventory_threads[i] = "loop"
       /\ inventory_threads' =
            IF loop_condition(is_inventory_running) THEN inventory_threads
            ELSE [inventory_threads EXCEPT ![i] = "dead"]
  /\ UNCHANGED <<antenna_config, inventory_thread, timer_active,
                 last_unique_count, last_total_count, view_running, scan_no,
                 queued, wire>>
  /\ UNCHANGED <<codecVars, ctrlVars, reasmVars, storeVars, sensorVars,
                 envVars, tagVars, analysisVars, serialVars>>

\* _inventory_loop of thread i: the test of the while statement
InventoryLoopTest(i) ==
  /\ i <= Len(inventory_threads)
  /\ inventory_threads[i] = "loop"
  /\ inventory_threads' =
       [inventory_threads EXCEPT
          ![i] = IF loop_condition(is_inventory_running) THEN "send"
                 ELSE "dead"]
  /\ UNCHANGED <<antenna_config, inventory_thread, timer_active,
                 last_unique_count, last_total_count, view_running, scan_no,
                 queued, wire>>
  /\ UNCHANGED <<codecVars, ctrlVars, reasmVars, storeVars, sensorVars,
                 envVars, tagVars, analysisVars, serialVars>>

\* _inventory_loop of thread i: the body of the while statement.  The
\* configuration is read by bytes(self._antenna_config) in one step.
InventoryLoopSend(i) ==
  /\ i <= Len(inventory_threads)
  /\ inventory_threads[i] = "send"
  /\ Len(wire) < MaxPolls
  /\ LET cmd == build_fast_switch_inventory(BROADCAST, antenna_config)
     IN  \E outcome \in PollOutcomes(cmd) :
           LET r == send_command(reader_port, cmd, outcome)
           IN  wire' = Append(wire, [thread |-> i, ret |-> r.ret,
                                     written |-> r.written,
                                     running |-> is_inventory_running,
                                     scan |-> scan_no])
  /\ inventory_threads' = [inventory_threads EXCEPT ![i] = "loop"]
  /\ UNCHANGED <<antenna_config, inventory_thread, timer_active,
                 last_unique_count, last_total_count, view_running, scan_no,
                 queued>>
  /\ UNCHANGED <<codecVars, ctrlVars, reasmVars, storeVars, sensorVars,
                 envVars, tagVars, analysisVars, serialVars>>

\* the timer's timeout: _flush_ui_updates on the foreground thread
TimerFlush ==
  /\ ui_pc = "idle"
  /\ timer_active
  /\ SetFlusher(_flush_ui_updates(Flusher))
  /\ UNCHANGED <<response_buffer, is_inventory_running>>
  /\ UNCHANGED <<antenna_config, inventory_thread, inventory_threads,
                 timer_active, view_running, scan_no, queued, wire>>
  /\ UNCHANGED <<codecVars, reasmVars, storeVars, sensorVars, envVars,
                 tagVars, analysisVars, serialVars>>

\* the reader worker hands the next frame of the stream to
\* _on_data_received: _process_frame up to the return of process_tag
ReceiveTagFrame ==
  /\ \E w \in 1..Len(reader_threads) :
       /\ reader_threads[w].pc = "loop"
       /\ fed < Len(stream)
       /\ LET data == SubSeq(stream, fed + 1, fed + Len(TagFrame))
              r == _on_data_received(World, response_buffer, data, now)
              pending == IF Len(r.world.tag_queue) > Len(tag_queue)
                         THEN <<r.world.tag_queue[Len(r.world.tag_queue)]>>
                         ELSE << >>
          IN  /\ SetStore(r.world.model)
              /\ response_buffer' = r.buffer
              /\ fed' = fed + Len(data)
              /\ frames' = frames \o r.frames
              /\ reader_threads' =
                   [reader_threads EXCEPT
                      ![w].pending = pending,
                      ![w].pc = IF pending = << >> THEN "loop" ELSE "queue"]
  /\ UNCHANGED <<is_inventory_running, tag_queue, counts_dirty, signals>>
  /\ UNCHANGED <<stream, sent_stream>>
  /\ UNCHANGED <<reader_port, sensor_port, is_reading, prev_cts, prev_dsr,
                 sensor_threads, ui_pc, serial_log, sampled>>
  /\ UNCHANGED <<codecVars, sensorVars, envVars, tagVars, analysisVars,
                 scanVars>>

\* _process_frame's last statement for a tag: _queue_tag_for_ui
QueueTagForUi ==
  /\ \E w \in 1..Len(reader_threads) :
       /\ reader_threads[w].pc = "queue"
       /\ LET tag_dict == reader_threads[w].pending[1]
              queued_tag ==
                [epc |-> tag_dict.epc, antenna |-> tag_dict.antenna,
                 count |-> tag_dict.count, rssi |-> tag_dict.rssi,
                 frequency |-> tag_dict.frequency,
                 scan |-> IF is_inventory_running THEN scan_no ELSE 0]
          IN  /\ tag_queue' = deque_append(tag_queue, queued_tag)
              /\ counts_dirty' = TRUE
              /\ queued' = Append(queued, queued_tag)
              /\ UNCHANGED wire
       /\ reader_threads' = [reader_threads EXCEPT ![w].pending = << >>,
                                                   ![w].pc = "loop"]
  /\ UNCHANGED <<response_buffer, is_inventory_running, signals>>
  /\ UNCHANGED <<antenna_config, inventory_thread, inventory_threads,
                 timer_active, last_unique_count, last_total_count,
                 view_running, scan_no>>
  /\ UNCHANGED <<reader_port, sensor_port, is_reading, prev_cts, prev_dsr,
                 sensor_threads, ui_pc, serial_log, sampled>>
  /\ UNCHANGED <<codecVars, reasmVars, storeVars, sensorVars, envVars,
                 tagVars, analysisVars>>

\* the stop_inventory slot on the foreground thread: the flag is cleared
\* and the timer stopped
StopInventory ==
  /\ ui_pc = "idle"
  /\ is_inventory_running' = FALSE
  /\ timer_active' = FALSE
  /\ ui_pc' = "stop_flush"
  /\ UNCHANGED <<response_buffer, tag_queue, counts_dirty, signals>>
  /\ UNCHANGED <<antenna_config, inventory_thread, inventory_threads,
                 last_unique_count, last_total_count, view_running, scan_no,
                 queued, wire>>
  /\ UNCHANGED <<reader_port, sensor_port, is_reading, prev_cts, prev_dsr,
                 reader_threads, sensor_threads, serial_log, sampled>>
  /\ UNCHANGED <<codecVars, reasmVars, storeVars, sensorVars, envVars,
                 tagVars, analysisVars>>

\* A mutant of _on_sensor_triggered: the scan is stopped in any case.
_on_sensor_triggered_always(running) == TRUE

\* _on_sensor_triggered: whether stop_inventory is called
_on_sensor_triggered(running) == running

\* the reader worker found a rising edge on CTS (sensor 1) or DSR
\* (sensor 2): _on_cts_changed / _on_dsr_changed, handle_sensor_activation
\* and, on a resolution, _on_sensor_triggered up to stop_inventory's timer
\* test.  QTimer refuses to be stopped from a thread that is not its own,
\* or the timer is stopped: both outcomes are kept.
OnSensorLine ==
  /\ calls < MaxEdges
  /\ \E w \in 1..Len(reader_threads), is_sensor1 \in BOOLEAN,
        timer_stops \in BOOLEAN :
       /\ reader_threads[w].pc = "loop"
       /\ LET r == handle_sensor_activation(Correlator, is_sensor1, now)
              stops == r.ret /\ _on_sensor_triggered(is_inventory_running)
          IN  /\ SetCorrelator(r.model)
              /\ sensor_events' =
                   IF r.ret
                   THEN Append(sensor_events, [direction |-> r.direction,
                                               time_diff |-> r.time_diff])
                   ELSE sensor_events
              /\ is_inventory_running' =
                   IF stops THEN FALSE ELSE is_inventory_running
              /\ timer_active' =
                   IF stops /\ timer_stops THEN FALSE ELSE timer_active
              /\ reader_threads' =
                   IF stops
                   THEN [reader_threads EXCEPT ![w].pc = "stop_flush"]
                   ELSE reader_threads
  /\ calls' = calls + 1
  /\ UNCHANGED <<response_buffer, tag_queue, counts_dirty, signals>>
  /\ UNCHANGED <<epc_dictionary, epc_read_history, total_tag_count>>
  /\ UNCHANGED <<antenna_config, inventory_thread, inventory_threads,
                 last_unique_count, last_total_count, view_running, scan_no,
                 queued, wire>>
  /\ UNCHANGED <<reader_port, sensor_port, is_reading, prev_cts, prev_dsr,
                 sensor_threads, ui_pc, serial_log, sampled>>
  /\ UNCHANGED <<now, last, call_log>>
  /\ UNCHANGED <<codecVars, reasmVars, tagVars, analysisVars>>

\* stop_inventory: self._flush_ui_updates()
StopFlush ==
  /\ \E t \in ScanThreads :
       /\ PcOf(t) = "stop_flush"
       /\ SetPc(t, "stop_join")
  /\ SetFlusher(_flush_ui_updates(Flusher))
  /\ UNCHANGED <<response_buffer, is_inventory_running>>
  /\ UNCHANGED <<antenna_config, inventory_thread, inventory_threads,
                 timer_active, view_running, scan_no, queued, wire>>
  /\ UNCHANGED <<reader_port, sensor_port, is_reading, prev_cts, prev_dsr,
                 serial_log, sampled>>
  /\ UNCHANGED <<codecVars, reasmVars, storeVars, sensorVars, envVars,
                 tagVars, analysisVars>>

\* stop_inventory: the join of self._inventory_thread, which returns when
\* the thread has ended or after 2 s, and the handle set to None
StopJoin ==
  /\ \E t \in ScanThreads :
       /\ PcOf(t) = "stop_join"
       /\ SetPc(t, "stop_report")
  /\ inventory_thread' = 0
  /\ UNCHANGED <<antenna_config, inventory_threads, timer_active,
                 last_unique_count, last_total_count, view_running, scan_no,
                 queued, wire>>
  /\ UNCHANGED <<reader_port, sensor_port, is_reading, prev_cts, prev_dsr,
                 serial_log, sampled>>
  /\ UNCHANGED <<codecVars, ctrlVars, reasmVars, storeVars, sensorVars,
                 envVars, tagVars, analysisVars>>

\* stop_inventory: the view is told, and _analyze_and_update
StopReport ==
  /\ \E t \in ScanThreads :
       /\ PcOf(t) = "stop_report"
       /\ SetPc(t, Rest(t))
       /\ last' = [op |-> "stop_inventory",
                   log |-> <<Log("Inventory stopped", << >>, 0)>>]
  /\ view_running' = FALSE
  /\ analysis' = <<analyze_tags(Store, now)>>
  /\ UNCHANGED <<antenna_config, inventory_thread, inventory_threads,
                 timer_active, last_unique_count, last_total_count, scan_no,
                 queued, wire>>
  /\ UNCHANGED <<reader_port, sensor_port, is_reading, prev_cts, prev_dsr,
                 serial_log, sampled>>
  /\ UNCHANGED <<now, calls, call_log>>
  /\ UNCHANGED <<codecVars, ctrlVars, reasmVars, storeVars, sensorVars,
                 tagVars>>

NextScan ==
  \/ ConnectReaderOnce
  \/ ConnectReaderOpen
  \/ StartInventory
  \/ StartInventoryClear
  \/ InventoryLoop
  \/ TimerFlush
  \/ ReceiveTagFrame
  \/ QueueTagForUi
  \/ StopInventory
  \/ OnSensorLine
  \/ StopFlush
  \/ StopJoin
  \/ StopReport

SpecScan == InitScan /\ [][NextScan]_vars

\* stop_inventory returns in this step
StopReturns ==
  \E t \in ScanThreads : PcOf(t) = "stop_report" /\ PcOf(t)' = Rest(t)

\* the tag events handed to the UI so far
Delivered(sigs) ==
  UNION {{sigs[i].tags[k] : k \in 1..Len(sigs[i].tags)} :
           i \in {j \in 1..Len(sigs) :
                    sigs[j].signal = "tags_batch_received"}}

\* C15: when stop_inventory returns, the UI tag queue is empty and every
\* event queued during the scan has been delivered to the UI.
C15_StopDrainsQueue ==
  [][StopReturns =>
       /\ tag_queue' = << >>
       /\ \A i \in 1..Len(queued') :
            queued'[i].scan = scan_no' => queued'[i] \in Delivered(signals')
    ]_vars

\* the batches delivered in this step
NewBatches ==
  {i \in (Len(signals) + 1)..Len(signals') :
     signals'[i].signal = "tags_batch_received"}

\* C16: no batch is delivered while the view has been told that the scan
\* is stopped, and an event queued during one scan is never delivered
\* during a later scan.
C16_NoStaleDelivery ==
  [][\A i \in NewBatches :
       /\ view_running
       /\ \A k \in 1..Len(signals'[i].tags) :
            signals'[i].tags[k].scan \in {0, scan_no}
    ]_vars


(***************************************************************************)
(* SpecSerial: the connections and their workers.  A reader worker's turn  *)
(* of _reader_monitor_loop is cut into the loop test, the data read, and   *)
(* for each control line the sample with its edge test and callback, and   *)
(* the store of the sample in _prev_cts / _prev_dsr; a sensor worker's     *)
(* turn into the loop test and the read.  The operating system decides     *)
(* what a read or a sample returns or raises.  No scan runs.               *)
(***************************************************************************)
MaxErrors == 1       \* errors raised in the workers in one run

\* a firmware-version frame of the reader
InfoFrame == create_frame(1, 114, <<1, 2>>)

\* the texts a sensor-port read returns
SensorTexts == {<<TRUE>>, <<FALSE>>, <<TRUE, FALSE>>}

\* handle_sensor_activation(is_sensor1, t) for each element of which, in
\* order: the correlator, the on_sensor calls and whether one was made
RECURSIVE Activations(_, _, _, _, _)
Activations(c, events, resolved, which, t) ==
  IF which = << >>
  THEN [model |-> c, events |-> events, resolved |-> resolved]
  ELSE LET r == handle_sensor_activation(c, Head(which), t)
       IN  Activations(r.model,
                       IF r.ret
                       THEN Append(events, [direction |-> r.direction,
                                            time_diff |-> r.time_diff])
                       ELSE events,
                       resolved \/ r.ret, Tail(which), t)

\* what an error raised at the data read of a reader worker leads to:
\* whether on_error is called, and where the worker goes on
reader_read_error(kind) ==
  IF kind = "device" THEN [reported |-> TRUE, pc |-> "dead"]
  ELSE IF kind = "serial" THEN [reported |-> TRUE, pc |-> "loop"]
  ELSE [reported |-> TRUE, pc |-> "dead"]

\* the same for a sensor worker
sensor_read_error(kind) ==
  IF kind \in {"device", "serial"} THEN [reported |-> FALSE, pc |-> "dead"]
  ELSE [reported |-> TRUE, pc |-> "dead"]

\* what reading a port can raise: a SerialException that names the device,
\* another SerialException, or another exception
ReadErrors(port) ==
  IF port = "open" THEN {"device", "serial", "other"}
  ELSE IF port = "closed" THEN {"serial"}
  ELSE {"other"}

ErrorEvent(worker, thread, at, kind, reported) ==
  [worker |-> worker, thread |-> thread, at |-> at, kind |-> kind,
   reported |-> reported]

\* if cts and not self._prev_cts
rising_edge(value, prev) == value /\ ~prev

InitSerial ==
  /\ stream = InfoFrame
  /\ sent_stream = stream
  /\ fed = 0
  /\ frames = << >>
  /\ CodecIdle /\ CtrlInit /\ StoreInit /\ SensorInit /\ EnvInit
  /\ TagIdle /\ AnalysisIdle /\ SerialInit /\ ScanInit

\* ReaderController.connect_sensor
ConnectSensor ==
  /\ ui_pc = "idle"
  /\ Len(reader_threads) + Len(sensor_threads) < MaxThreads
  /\ \/ /\ sensor_port' = "open"
        /\ sensor_threads' = Append(sensor_threads, NewThread)
        /\ last' = [op |-> "connect_sensor", ret |-> TRUE,
                    log |-> <<Log("Sensor connected to", << >>, 2)>>]
     \/ \* serial.Serial(port=...) raises SerialException
        /\ sensor_port' = IF sensor_port = "open" THEN "closed"
                          ELSE sensor_port
        /\ last' = [op |-> "connect_sensor", ret |-> FALSE,
                    log |-> <<Log("Sensor connection failed", << >>, 1)>>]
        /\ UNCHANGED sensor_threads
  /\ UNCHANGED <<reader_port, is_reading, prev_cts, prev_dsr, reader_threads,
                 ui_pc, serial_log, sampled>>
  /\ UNCHANGED <<now, calls, call_log>>
  /\ UNCHANGED <<codecVars, ctrlVars, reasmVars, storeVars, sensorVars,
                 tagVars, analysisVars, scanVars>>

\* ReaderController.disconnect_sensor
DisconnectSensor ==
  /\ ui_pc = "idle"
  /\ sensor_port' = "None"
  /\ last' = [op |-> "disconnect_sensor", ret |-> TRUE,
              log |-> <<Log("Sensor disconnected", << >>, 0)>>]
  /\ UNCHANGED <<reader_port, is_reading, prev_cts, prev_dsr, reader_threads,
                 sensor_threads, ui_pc, serial_log, sampled>>
  /\ UNCHANGED <<now, calls, call_log>>
  /\ UNCHANGED <<codecVars, ctrlVars, reasmVars, storeVars, sensorVars,
                 tagVars, analysisVars, scanVars>>

\* while self._is_reading and self._reader_port and
\* self._reader_port.is_open
ReaderLoopTest ==
  /\ \E w \in 1..Len(reader_threads) :
       /\ reader_threads[w].pc = "loop"
       /\ reader_threads' =
            [reader_threads EXCEPT
               ![w].pc = IF is_reading /\ reader_port = "open" THEN "read"
                         ELSE "dead"]
  /\ UNCHANGED <<reader_port, sensor_port, is_reading, prev_cts, prev_dsr,
                 sensor_threads, ui_pc, serial_log, sampled>>
  /\ UNCHANGED <<codecVars, ctrlVars, reasmVars, storeVars, sensorVars,
                 envVars, tagVars, analysisVars, scanVars>>

\* in_waiting and read of the reader port, and _on_data_received
ReaderRead ==
  /\ \E w \in 1..Len(reader_threads) :
       /\ reader_threads[w].pc = "read"
       /\ \/ \* nothing is waiting
             /\ reader_port = "open"
             /\ reader_threads' = [reader_threads EXCEPT ![w].pc = "cts"]
             /\ UNCHANGED <<ctrlVars, reasmVars, storeVars, serial_log>>
          \/ \* the bytes that wait are read and handed on
             /\ reader_port = "open"
             /\ fed < Len(stream)
             /\ LET data == DropFirst(stream, fed)
                    r == _on_data_received(World, response_buffer, data, now)
                IN  /\ SetWorld(r.world)
                    /\ response_buffer' = r.buffer
                    /\ fed' = Len(stream)
                    /\ frames' = frames \o r.frames
             /\ reader_threads' = [reader_threads EXCEPT ![w].pc = "cts"]
             /\ UNCHANGED <<stream, sent_stream, serial_log>>
          \/ \* the read raises
             /\ Len(serial_log) < MaxErrors
             /\ \E kind \in ReadErrors(reader_port) :
                  LET e == reader_read_error(kind)
                  IN  /\ serial_log' =
                           Append(serial_log,
                                  ErrorEvent("reader", w, "read", kind,
                                             e.reported))
                      /\ reader_threads' =
                           [reader_threads EXCEPT ![w].pc = e.pc]
             /\ UNCHANGED <<ctrlVars, reasmVars, storeVars>>
  /\ UNCHANGED <<reader_port, sensor_port, is_reading, prev_cts, prev_dsr,
                 sensor_threads, ui_pc, sampled>>
  /\ UNCHANGED <<codecVars, sensorVars, envVars, tagVars, analysisVars,
                 scanVars>>

\* cts = self._reader_port.cts (dsr likewise), the edge test and the
\* callback _on_cts_changed(True, now) (_on_dsr_changed)
ReaderSampleLine ==
  /\ \E w \in 1..Len(reader_threads) :
       /\ reader_threads[w].pc \in {"cts", "dsr"}
       /\ LET is_cts == reader_threads[w].pc = "cts"
              prev == IF is_cts THEN prev_cts ELSE prev_dsr
          IN
          \/ \* the line is sampled
             /\ reader_port = "open"
             /\ \E value \in BOOLEAN, timer_stops \in BOOLEAN :
                  LET fires == rising_edge(value, prev)
                      r == Activations(Correlator, sensor_events, FALSE,
                                       IF fires THEN <<is_cts>> ELSE << >>,
                                       now)
                      stops == r.resolved /\ is_inventory_running
                      store == IF is_cts THEN "cts_store" ELSE "dsr_store"
                  IN  /\ fires => calls < MaxEdges
                      /\ timer_stops => stops
                      /\ sampled' = IF is_cts
                                    THEN [sampled EXCEPT !.cts = value]
                                    ELSE [sampled EXCEPT !.dsr = value]
                      /\ SetCorrelator(r.model)
                      /\ sensor_events' = r.events
                      /\ calls' = IF fires THEN calls + 1 ELSE calls
                      /\ is_inventory_running' =
                           IF stops THEN FALSE ELSE is_inventory_running
                      /\ timer_active' =
                           IF timer_stops THEN FALSE ELSE timer_active
                      /\ reader_threads' =
                           [reader_threads EXCEPT
                              ![w].cts = IF is_cts THEN value ELSE @,
                              ![w].dsr = IF is_cts THEN @ ELSE value,
                              ![w].ret = store,
                              ![w].pc = IF stops THEN "stop_flush"
                                        ELSE store]
                      /\ UNCHANGED serial_log
          \/ \* the sample raises OSError or SerialException, which the
             \* inner handler passes over; without a port object the
             \* AttributeError reaches the outer handler
             /\ Len(serial_log) < MaxErrors
             /\ \E kind \in ReadErrors(reader_port) \ {"device"} :
                  LET passed == reader_port # "None"
                  IN  /\ serial_log' =
                           Append(serial_log,
                                  ErrorEvent("reader", w, "lines", kind,
                                             ~passed))
                      /\ reader_threads' =
                           [reader_threads EXCEPT
                              ![w].pc = IF passed THEN "loop" ELSE "dead"]
             /\ UNCHANGED <<sampled, calls, is_inventory_running,
                            timer_active, sensorVars, detected_direction>>
  /\ UNCHANGED <<response_buffer, tag_queue, counts_dirty, signals>>
  /\ UNCHANGED <<epc_dictionary, epc_read_history, total_tag_count>>
  /\ UNCHANGED <<antenna_config, inventory_thread, inventory_threads,
                 last_unique_count, last_total_count, view_running, scan_no,
                 queued, wire>>
  /\ UNCHANGED <<reader_port, sensor_port, is_reading, prev_cts, prev_dsr,
                 sensor_threads, ui_pc>>
  /\ UNCHANGED <<now, last, call_log>>
  /\ UNCHANGED <<codecVars, reasmVars, tagVars, analysisVars>>

\* self._prev_cts = cts (self._prev_dsr = dsr); the local variable is not
\* read again before the next sample, and is forgotten here
ReaderStoreLine ==
  /\ \E w \in 1..Len(reader_threads) :
       \/ /\ reader_threads[w].pc = "cts_store"
          /\ prev_cts' = reader_threads[w].cts
          /\ reader_threads' = [reader_threads EXCEPT ![w].pc = "dsr",
                                                      ![w].cts = FALSE]
          /\ UNCHANGED prev_dsr
       \/ /\ reader_threads[w].pc = "dsr_store"
          /\ prev_dsr' = reader_threads[w].dsr
          /\ reader_threads' = [reader_threads EXCEPT ![w].pc = "loop",
                                                      ![w].ret = "loop",
                                                      ![w].dsr = FALSE]
          /\ UNCHANGED prev_cts
  /\ UNCHANGED <<reader_port, sensor_port, is_reading, sensor_threads, ui_pc,
                 serial_log, sampled>>
  /\ UNCHANGED <<codecVars, ctrlVars, reasmVars, storeVars, sensorVars,
                 envVars, tagVars, analysisVars, scanVars>>

\* while self._sensor_port and self._sensor_port.is_open
SensorLoopTest ==
  /\ \E s \in 1..Len(sensor_threads) :
       /\ sensor_threads[s].pc = "loop"
       /\ sensor_threads' =
            [sensor_threads EXCEPT
               ![s].pc = IF sensor_port = "open" THEN "read" ELSE "dead"]
  /\ UNCHANGED <<reader_port, sensor_port, is_reading, prev_cts, prev_dsr,
                 reader_threads, ui_pc, serial_log, sampled>>
  /\ UNCHANGED <<codecVars, ctrlVars, reasmVars, storeVars, sensorVars,
                 envVars, tagVars, analysisVars, scanVars>>

\* in_waiting and read of the sensor port, and _on_sensor_data(text); an
\* element of which stands for "#1" (TRUE) or "#2" (FALSE) in the text
SensorRead ==
  /\ \E s \in 1..Len(sensor_threads) :
       /\ sensor_threads[s].pc = "read"
       /\ \/ \* nothing is waiting
             /\ sensor_port = "open"
             /\ sensor_threads' = [sensor_threads EXCEPT ![s].pc = "loop"]
             /\ UNCHANGED <<serial_log, calls, is_inventory_running,
                            timer_active, sensorVars, detected_direction>>
          \/ \* a text is read and handed on
             /\ sensor_port = "open"
             /\ \E which \in SensorTexts, timer_stops \in BOOLEAN :
                  LET r == Activations(Correlator, sensor_events, FALSE,
                                       which, now)
                      stops == r.resolved /\ is_inventory_running
                  IN  /\ calls + Len(which) <= MaxEdges
                      /\ timer_stops => stops
                      /\ SetCorrelator(r.model)
                      /\ sensor_events' = r.events
                      /\ calls' = calls + Len(which)
                      /\ is_inventory_running' =
                           IF stops THEN FALSE ELSE is_inventory_running
                      /\ timer_active' =
                           IF timer_stops THEN FALSE ELSE timer_active
                      /\ sensor_threads' =
                           [sensor_threads EXCEPT
                              ![s].pc = IF stops THEN "stop_flush"
                                        ELSE "loop"]
             /\ UNCHANGED serial_log
          \/ \* the read raises
             /\ Len(serial_log) < MaxErrors
             /\ \E kind \in ReadErrors(sensor_port) :
                  LET e == sensor_read_error(kind)
                  IN  /\ serial_log' =
                           Append(serial_log,
                                  ErrorEvent("sensor", s, "read", kind,
                                             e.reported))
                      /\ sensor_threads' =
                           [sensor_threads EXCEPT ![s].pc = e.pc]
             /\ UNCHANGED <<calls, is_inventory_running, timer_active,
                            sensorVars, detected_direction>>
  /\ UNCHANGED <<response_buffer, tag_queue, counts_dirty, signals>>
  /\ UNCHANGED <<epc_dictionary, epc_read_history, total_tag_count>>
  /\ UNCHANGED <<antenna_config, inventory_thread, inventory_threads,
                 last_unique_count, last_total_count, view_running, scan_no,
                 queued, wire>>
  /\ UNCHANGED <<reader_port, sensor_port, is_reading, prev_cts, prev_dsr,
                 reader_threads, ui_pc, sampled>>
  /\ UNCHANGED <<now, last, call_log>>
  /\ UNCHANGED <<codecVars, reasmVars, tagVars, analysisVars>>

NextSerial ==
  \/ ConnectReader
  \/ ConnectReaderOpen
  \/ DisconnectReader
  \/ DisconnectReaderClose
  \/ ConnectSensor
  \/ DisconnectSensor
  \/ ReaderLoopTest
  \/ ReaderRead
  \/ ReaderSampleLine
  \/ ReaderStoreLine
  \/ SensorLoopTest
  \/ SensorRead

SpecSerial == InitSerial /\ [][NextSerial]_vars


\* reader worker w samples a control line in this step
SamplesLine(w, pc) ==
  /\ w <= Len(reader_threads)
  /\ reader_threads[w].pc = pc
  /\ reader_threads'[w].pc \in {pc \o "_store", "stop_flush"}

\* the callback of a control line is called in this step
EventEmitted == calls' = calls + 1

\* C17: in each poll cycle the reader worker emits a CTS (DSR) event if
\* and only if the line samples true and its previous sample was false.
C17_EdgeTriggered ==
  [][\A w \in 1..Len(reader_threads) :
       /\ SamplesLine(w, "cts") =>
            (EventEmitted <=> (sampled'.cts /\ ~sampled.cts))
       /\ SamplesLine(w, "dsr") =>
            (EventEmitted <=> (sampled'.dsr /\ ~sampled.dsr))
    ]_vars

\* the worker whose poll raised the last error of the log
ErrorThread(log, readers, sensors) ==
  LET e == log[Len(log)]
  IN  IF e.worker = "reader" THEN readers[e.thread] ELSE sensors[e.thread]

\* C18: whenever polling raises an I/O error in a worker, the error is
\* reported through the error callback and the worker terminates; no
\* worker is started except by a connect call.
C18_ErrorReportedAndTerminal ==
  [][/\ Len(serial_log') > Len(serial_log) =>
          /\ serial_log'[Len(serial_log')].reported
          /\ ~is_alive(ErrorThread(serial_log', reader_threads',
                                   sensor_threads'))
     /\ Len(reader_threads') > Len(reader_threads) =>
          ui_pc = "connect_reader_open"
     /\ Len(sensor_threads') > Len(sensor_threads) =>
          ui_pc = "idle" /\ last'.op = "connect_sensor"
    ]_vars


(***************************************************************************)
(* SpecStoreRace: one process_tag call of the receive worker against one   *)
(* clear_data call of the foreground thread.  Each statement that reads or *)
(* writes a field of the store is a step; the statements under             *)
(* self._history_lock exclude each other.  call_log holds the calls that   *)
(* have returned.                                                          *)
(***************************************************************************)
MaxPriorReads == 2   \* reads of EpcA in the store before the two calls

RaceTags ==
  {RXInventoryTag(Str3000, epc, Str200, FormatFrequency(1731), 1) :
      epc \in {Str000000, EpcA, EpcB}}

\* clear_data holds self._history_lock between its two clear() calls
history_lock_held == ui_pc = "cd_history"

Called(op) == \E i \in 1..Len(call_log) : call_log[i].op = op

\* a reader is connected and a scan runs; the store holds some reads
InitStoreRace ==
  /\ \E n \in 0..MaxPriorReads :
       LET m == IF n = 0 THEN clear_data(Store)
                ELSE StoreAfterReads(
                       RXInventoryTag(Str3000, EpcA, Str200,
                                      FormatFrequency(1731), 1), n)
       IN  /\ epc_dictionary = m.epc_dictionary
           /\ epc_read_history = m.epc_read_history
           /\ total_tag_count = m.total_tag_count
  /\ detected_direction = "X"
  /\ response_buffer = << >> /\ tag_queue = << >> /\ counts_dirty = FALSE
  /\ signals = << >>
  /\ is_inventory_running = TRUE
  /\ reader_port = "open" /\ sensor_port = "None" /\ is_reading = TRUE
  /\ prev_cts = FALSE /\ prev_dsr = FALSE
  /\ reader_threads = <<NewThread>> /\ sensor_threads = << >>
  /\ ui_pc = "idle" /\ serial_log = << >>
  /\ sampled = [cts |-> FALSE, dsr |-> FALSE]
  /\ antenna_config = antenna_config_of(<<TRUE, TRUE, FALSE, FALSE>>)
  /\ inventory_thread = 1 /\ inventory_threads = <<"loop">>
  /\ timer_active = TRUE
  /\ last_unique_count = 0 /\ last_total_count = 0
  /\ view_running = TRUE /\ scan_no = 1 /\ queued = << >> /\ wire = << >>
  /\ CodecIdle /\ ReasmIdle /\ SensorInit /\ EnvInit
  /\ TagIdle /\ AnalysisIdle

raceRest == <<codecVars, ctrlVars, reasmVars, sensorVars, tagVars,
              analysisVars, scanVars>>

raceSerialRest == <<reader_port, sensor_port, is_reading, prev_cts, prev_dsr,
                    sensor_threads, serial_log, sampled>>

\* process_tag(tag): the EPC filter, and the read of
\* self._total_tag_count for "+= 1"
ProcessTagEnter ==
  /\ ~Called("process_tag")
  /\ \E w \in 1..Len(reader_threads), tag \in RaceTags :
       /\ reader_threads[w].pc = "loop"
       /\ IF rejects_epc(tag.str_epc)
          THEN /\ call_log' = Append(call_log,
                                     [op |-> "process_tag", tag |-> tag,
                                      raised |-> FALSE, ret |-> FALSE])
               /\ UNCHANGED reader_threads
          ELSE /\ reader_threads' =
                    [reader_threads EXCEPT
                       ![w].pc = "pt_add",
                       ![w].pending = <<[tag |-> tag,
                                         total |-> total_tag_count,
                                         is_new |-> FALSE]>>]
               /\ UNCHANGED call_log
  /\ UNCHANGED <<storeVars, ui_pc, now, calls, last>>
  /\ UNCHANGED <<raceRest, raceSerialRest>>

\* the write of "self._total_tag_count += 1"
ProcessTagAdd ==
  /\ \E w \in 1..Len(reader_threads) :
       /\ reader_threads[w].pc = "pt_add"
       /\ total_tag_count' = reader_threads[w].pending[1].total + 1
       /\ reader_threads' = [reader_threads EXCEPT ![w].pc = "pt_ceiling"]
  /\ UNCHANGED <<epc_dictionary, epc_read_history, detected_direction>>
  /\ UNCHANGED <<ui_pc, envVars>>
  /\ UNCHANGED <<raceRest, raceSerialRest>>

\* if self._total_tag_count >= self.MAX_TOTAL_TAGS: self.clear_data()
ProcessTagCeiling ==
  /\ \E w \in 1..Len(reader_threads) :
       /\ reader_threads[w].pc = "pt_ceiling"
       /\ reader_threads' = [reader_threads EXCEPT ![w].pc = "pt_is_new"]
  /\ IF reached_ceiling(total_tag_count)
     THEN /\ ~history_lock_held
          /\ SetStore(clear_data(Store))
     ELSE UNCHANGED storeVars
  /\ UNCHANGED <<ui_pc, envVars>>
  /\ UNCHANGED <<raceRest, raceSerialRest>>

\* is_new = tag.str_epc not in self._epc_dictionary
ProcessTagIsNew ==
  /\ \E w \in 1..Len(reader_threads) :
       /\ reader_threads[w].pc = "pt_is_new"
       /\ reader_threads' =
            [reader_threads EXCEPT
               ![w].pc = "pt_count",
               ![w].pending[1].is_new =
                  reader_threads[w].pending[1].tag.str_epc
                    \notin DOMAIN epc_dictionary]
  /\ UNCHANGED <<storeVars, ui_pc, envVars>>
  /\ UNCHANGED <<raceRest, raceSerialRest>>

\* self._epc_dictionary[tag.str_epc] = 1, or "+= 1", which raises KeyError
\* when the key is gone; the KeyError ends the worker in the monitor
\* loop's "except Exception"
ProcessTagCount ==
  /\ \E w \in 1..Len(reader_threads) :
       /\ reader_threads[w].pc = "pt_count"
       /\ LET p == reader_threads[w].pending[1]
              epc == p.tag.str_epc
          IN  IF p.is_new
              THEN /\ epc_dictionary' =
                        [e \in DOMAIN epc_dictionary \cup {epc} |->
                           IF e = epc THEN 1 ELSE epc_dictionary[e]]
                   /\ reader_threads' =
                        [reader_threads EXCEPT ![w].pc = "pt_append"]
                   /\ UNCHANGED <<call_log, last>>
              ELSE IF epc \in DOMAIN epc_dictionary
              THEN /\ epc_dictionary' =
                        [epc_dictionary EXCEPT ![epc] = @ + 1]
                   /\ reader_threads' =
                        [reader_threads EXCEPT ![w].pc = "pt_append"]
                   /\ UNCHANGED <<call_log, last>>
              ELSE /\ call_log' = Append(call_log,
                                         [op |-> "process_tag",
                                          tag |-> p.tag, raised |-> TRUE,
                                          ret |-> FALSE])
                   /\ last' = [op |-> "on_error",
                               log |-> <<Log("Monitor error", << >>, 1)>>]
                   /\ reader_threads' =
                        [reader_threads EXCEPT ![w].pc = "dead",
                                               ![w].pending = << >>]
                   /\ UNCHANGED epc_dictionary
  /\ UNCHANGED <<epc_read_history, total_tag_count, detected_direction>>
  /\ UNCHANGED <<ui_pc, now, calls>>
  /\ UNCHANGED <<raceRest, raceSerialRest>>

\* with self._history_lock: self._epc_read_history.append(event), and the
\* return
ProcessTagAppend ==
  /\ ~history_lock_held
  /\ \E w \in 1..Len(reader_threads) :
       /\ reader_threads[w].pc = "pt_append"
       /\ LET p == reader_threads[w].pending[1]
              tag == p.tag
              event == [epc |-> tag.str_epc,
                        rssi |-> IF tag.str_rssi # << >>
                                 THEN IntOfStr(tag.str_rssi) ELSE 0,
                        read_time |-> now, antenna |-> tag.bt_ant_id,
                        frequency |-> tag.str_freq, pc |-> tag.str_pc]
          IN  /\ epc_read_history' = Append(epc_read_history, event)
              /\ call_log' = Append(call_log,
                                    [op |-> "process_tag", tag |-> tag,
                                     raised |-> FALSE, ret |-> p.is_new])
       /\ reader_threads' = [reader_threads EXCEPT ![w].pc = "loop",
                                                   ![w].pending = << >>]
  /\ UNCHANGED <<epc_dictionary, total_tag_count, detected_direction>>
  /\ UNCHANGED <<ui_pc, now, calls, last>>
  /\ UNCHANGED <<raceRest, raceSerialRest>>

\* clear_data: the lock is taken and self._epc_dictionary.clear()
ClearDataEnter ==
  /\ ui_pc = "idle"
  /\ ~Called("clear_data")
  /\ epc_dictionary' = EmptyDict
  /\ ui_pc' = "cd_history"
  /\ UNCHANGED <<epc_read_history, total_tag_count, detected_direction>>
  /\ UNCHANGED <<reader_threads, envVars>>
  /\ UNCHANGED <<raceRest, raceSerialRest>>

\* self._epc_read_history.clear(), and the lock is released
ClearDataHistory ==
  /\ ui_pc = "cd_history"
  /\ epc_read_history' = << >>
  /\ ui_pc' = "cd_total"
  /\ UNCHANGED <<epc_dictionary, total_tag_count, detected_direction>>
  /\ UNCHANGED <<reader_threads, envVars>>
  /\ UNCHANGED <<raceRest, raceSerialRest>>

\* self._total_tag_count = 0 and self._detected_direction, and the return
ClearDataTotal ==
  /\ ui_pc = "cd_total"
  /\ total_tag_count' = 0
  /\ detected_direction' = "X"
  /\ ui_pc' = "idle"
  /\ call_log' = Append(call_log, [op |-> "clear_data"])
  /\ UNCHANGED <<epc_dictionary, epc_read_history>>
  /\ UNCHANGED <<reader_threads, now, calls, last>>
  /\ UNCHANGED <<raceRest, raceSerialRest>>

NextStoreRace ==
  \/ ProcessTagEnter
  \/ ProcessTagAdd
  \/ ProcessTagCeiling
  \/ ProcessTagIsNew
  \/ ProcessTagCount
  \/ ProcessTagAppend
  \/ ClearDataEnter
  \/ ClearDataHistory
  \/ ClearDataTotal

SpecStoreRace == InitStoreRace /\ [][NextStoreRace]_vars

\* both calls have returned
RaceDone == Called("process_tag") /\ Called("clear_data")

\* the tag given to the process_tag call of the run
RaceTag == (CHOOSE c \in {call_log[i] : i \in 1..Len(call_log)} :
              c.op = "process_tag").tag

\* the stores the two serial orders end in: clear_data after process_tag
\* leaves the empty store, process_tag after clear_data the store of one
\* read
SerialOutcomes ==
  {clear_data(Store),
   process_tag(clear_data(Store), RaceTag, now).model}

\* C19: process_tag run concurrently with clear_data ends in a store that
\* a serial order of the two produces, and the history holds no event
\* whose EPC is missing from the unique map.
C19_StoreSerializable ==
  RaceDone =>
    /\ Store \in SerialOutcomes
    /\ \A i \in 1..Len(epc_read_history) :
         epc_read_history[i].epc \in DOMAIN epc_dictionary


(***************************************************************************)
(* SpecCorrelator: handle_sensor_activation called by the reader worker    *)
(* (CTS / DSR edges) and by the sensor worker ("#1" / "#2" in a text), one *)
(* statement group at a time.  The clock advances with every call, so that *)
(* a timestamp names its activation.  No scan runs.                        *)
(***************************************************************************)
\* the worker threads of the run: reader worker 1 and sensor worker 1
CorrelatorThreads == {1, 0 - 1}

ThreadRec(t) == IF t > 0 THEN reader_threads[t] ELSE sensor_threads[0 - t]

SetThread(t, rec) ==
  /\ reader_threads' =
       IF t > 0 THEN [reader_threads EXCEPT ![t] = rec] ELSE reader_threads
  /\ sensor_threads' =
       IF t < 0 THEN [sensor_threads EXCEPT ![0 - t] = rec]
       ELSE sensor_threads

\* a mutant of the lock: it is given to whoever asks
can_acquire_always(holder) == TRUE

\* with self._sensor_lock: the lock is free
can_acquire(holder) == holder = None

\* both connections are up
InitCorrelator ==
  /\ reader_port = "open" /\ sensor_port = "open" /\ is_reading = TRUE
  /\ prev_cts = FALSE /\ prev_dsr = FALSE
  /\ reader_threads = <<NewThread>> /\ sensor_threads = <<NewThread>>
  /\ ui_pc = "idle" /\ serial_log = << >>
  /\ sampled = [cts |-> FALSE, dsr |-> FALSE]
  /\ CodecIdle /\ CtrlInit /\ ReasmIdle /\ StoreInit /\ SensorInit /\ EnvInit
  /\ TagIdle /\ AnalysisIdle /\ ScanInit

corrRest == <<codecVars, ctrlVars, reasmVars, tagVars, analysisVars, scanVars,
              reader_port, sensor_port, is_reading, prev_cts, prev_dsr, ui_pc,
              serial_log, sampled, epc_dictionary, epc_read_history,
              total_tag_count>>

\* the caller takes datetime.now() and calls
\* handle_sensor_activation(is_sensor1, activation_time)
HsaEnter ==
  /\ calls < MaxCalls
  /\ \E t \in CorrelatorThreads, is_sensor1 \in BOOLEAN :
       /\ ThreadRec(t).pc = "loop"
       /\ SetThread(t, [ThreadRec(t) EXCEPT
                          !.pc = "hs_acquire",
                          !.pending = <<[is_sensor1 |-> is_sensor1,
                                         activation_time |-> now + 1,
                                         s1 |-> None, s2 |-> None,
                                         direction |-> "X",
                                         time_diff |-> 0]>>])
  /\ now' = now + 1
  /\ calls' = calls + 1
  /\ UNCHANGED <<sensorVars, detected_direction, last, call_log>>
  /\ UNCHANGED corrRest

\* with self._sensor_lock:
HsaAcquire ==
  /\ \E t \in CorrelatorThreads :
       /\ ThreadRec(t).pc = "hs_acquire"
       /\ can_acquire(sensor_lock)
       /\ sensor_lock' = Some(t)
       /\ SetThread(t, [ThreadRec(t) EXCEPT !.pc = "hs_set"])
  /\ UNCHANGED <<s1_activated_time, s2_activated_time, last_direction,
                 last_s1_activation, last_s2_activation,
                 sensor_activated_time, sensor_events>>
  /\ UNCHANGED <<detected_direction, envVars>>
  /\ UNCHANGED corrRest

\* self._sensor_state.s1_activated_time = activation_time (or s2)
HsaSet ==
  /\ \E t \in CorrelatorThreads :
       /\ ThreadRec(t).pc = "hs_set"
       /\ LET p == ThreadRec(t).pending[1]
              ss == set_activation(Correlator.sensor_state, p.is_sensor1,
                                   p.activation_time)
          IN  /\ s1_activated_time' = ss.s1_activated_time
              /\ s2_activated_time' = ss.s2_activated_time
       /\ SetThread(t, [ThreadRec(t) EXCEPT !.pc = "hs_test"])
  /\ UNCHANGED <<last_direction, last_s1_activation, last_s2_activation,
                 sensor_activated_time, sensor_events, sensor_lock>>
  /\ UNCHANGED <<detected_direction, envVars>>
  /\ UNCHANGED corrRest

\* if self._sensor_state.both_sensors_activated: the times are saved and
\* the direction, the time difference and the trigger time computed;
\* otherwise the lock is released and the call returns False
HsaTest ==
  /\ \E t \in CorrelatorThreads :
       /\ ThreadRec(t).pc = "hs_test"
       /\ LET p == ThreadRec(t).pending[1]
              ss == Correlator.sensor_state
          IN  IF both_sensors_activated(ss)
              THEN /\ last_s1_activation' = ss.s1_activated_time
                   /\ last_s2_activation' = ss.s2_activated_time
                   /\ last_direction' = get_direction(ss)
                   /\ detected_direction' = get_direction(ss)
                   /\ sensor_activated_time' = Some(get_trigger_time(ss))
                   /\ SetThread(t, [ThreadRec(t) EXCEPT
                        !.pc = "hs_reset",
                        !.pending =
                           <<[p EXCEPT
                                !.s1 = ss.s1_activated_time,
                                !.s2 = ss.s2_activated_time,
                                !.direction = get_direction(ss),
                                !.time_diff = get_time_difference_ms(ss)]>>])
                   /\ UNCHANGED <<sensor_lock, call_log>>
              ELSE /\ sensor_lock' = None
                   /\ call_log' =
                        Append(call_log,
                               [op |-> "handle_sensor_activation",
                                thread |-> t, is_sensor1 |-> p.is_sensor1,
                                activation_time |-> p.activation_time,
                                ret |-> FALSE, s1 |-> None, s2 |-> None])
                   /\ SetThread(t, [ThreadRec(t) EXCEPT !.pc = "loop",
                                                        !.pending = << >>])
                   /\ UNCHANGED <<last_s1_activation, last_s2_activation,
                                  last_direction, detected_direction,
                                  sensor_activated_time>>
  /\ UNCHANGED <<s1_activated_time, s2_activated_time, sensor_events>>
  /\ UNCHANGED <<now, calls, last>>
  /\ UNCHANGED corrRest

\* self._sensor_state.reset(), the lock is released, on_sensor is called
\* (_on_sensor_triggered finds no scan to stop) and the call returns True
HsaReset ==
  /\ ~is_inventory_running
  /\ \E t \in CorrelatorThreads :
       /\ ThreadRec(t).pc = "hs_reset"
       /\ LET p == ThreadRec(t).pending[1]
              ss == reset(Correlator.sensor_state)
          IN  /\ s1_activated_time' = ss.s1_activated_time
              /\ s2_activated_time' = ss.s2_activated_time
              /\ last_direction' = ss.last_direction
              /\ sensor_events' =
                   Append(sensor_events, [direction |-> p.direction,
                                          time_diff |-> p.time_diff])
              /\ call_log' =
                   Append(call_log,
                          [op |-> "handle_sensor_activation",
                           thread |-> t, is_sensor1 |-> p.is_sensor1,
                           activation_time |-> p.activation_time,
                           ret |-> TRUE, s1 |-> p.s1, s2 |-> p.s2])
       /\ SetThread(t, [ThreadRec(t) EXCEPT !.pc = "loop",
                                            !.pending = << >>])
  /\ sensor_lock' = None
  /\ UNCHANGED <<last_s1_activation, last_s2_activation,
                 sensor_activated_time>>
  /\ UNCHANGED <<detected_direction, now, calls, last>>
  /\ UNCHANGED corrRest

NextCorrelator ==
  \/ HsaEnter
  \/ HsaAcquire
  \/ HsaSet
  \/ HsaTest
  \/ HsaReset

SpecCorrelator == InitCorrelator /\ [][NextCorrelator]_vars

\* the calls that resolved, by their place in call_log
Resolutions == {i \in 1..Len(call_log) : call_log[i].ret}

\* the activations of sensor 1 (is_sensor1) or sensor 2 begun so far: the
\* calls that returned and those under way
ActivationTimes(is_sensor1) ==
  {call_log[i].activation_time :
     i \in {j \in 1..Len(call_log) : call_log[j].is_sensor1 = is_sensor1}}
  \cup {ThreadRec(t).pending[1].activation_time :
          t \in {u \in CorrelatorThreads :
                   /\ ThreadRec(u).pending # << >>
                   /\ ThreadRec(u).pending[1].is_sensor1 = is_sensor1}}

\* C20: every resolution consumes one sensor-1 and one sensor-2 timestamp,
\* no timestamp takes part in two resolutions, and there are never more
\* resolutions than activations of either sensor.
C20_ResolveAtomic ==
  /\ \A i \in Resolutions :
       /\ call_log[i].s1 # None /\ call_log[i].s2 # None
       /\ call_log[i].s1[1] \in ActivationTimes(TRUE)
       /\ call_log[i].s2[1] \in ActivationTimes(FALSE)
  /\ \A i, j \in Resolutions :
       i # j => /\ call_log[i].s1 # call_log[j].s1
                /\ call_log[i].s2 # call_log[j].s2
  /\ Cardinality(Resolutions) <= Cardinality(ActivationTimes(TRUE))
  /\ Cardinality(Resolutions) <= Cardinality(ActivationTimes(FALSE))
  /\ Len(sensor_events) = Cardinality(Resolutions)

\* a call of one worker has resolved with the timestamp set by the other
\* worker, while the other worker waits for the lock with its next call
C20_Witness ==
  /\ \E i \in Resolutions, j \in 1..Len(call_log) :
       /\ call_log[j].thread # call_log[i].thread
       /\ ~call_log[j].ret
       /\ Some(call_log[j].activation_time)
            \in {call_log[i].s1, call_log[i].s2}
  /\ \E t \in CorrelatorThreads :
       /\ ThreadRec(t).pc = "hs_acquire"
       /\ sensor_lock # None
       /\ sensor_lock # Some(t)

\* the worker threads of a sequence that have not ended
Alive(threads) == {i \in 1..Len(threads) : is_alive(threads[i])}

\* C21: between the calls of connect_reader, disconnect_reader,
\* connect_sensor and disconnect_sensor, at most one reader worker and at
\* most one sensor worker are alive.
C21_OneWorkerEach ==
  ui_pc = "idle" =>
    /\ Cardinality(Alive(reader_threads)) <= 1
    /\ Cardinality(Alive(sensor_threads)) <= 1

(***************************************************************************)
(* SpecCorrupt: the reader sends well-formed frames back to back; some     *)
(* bytes of one of them are altered on the line (the stream keeps its      *)
(* length) before the serial worker delivers the bytes in chunks.          *)
(***************************************************************************)
MaxFrames == 3       \* frames in one stream
MaxAltered == 2      \* bytes of a frame altered on the line

\* the frames the reader sends: firmware version 1.2, reader id A0 (a data
\* byte equal to the marker), S11 measurement 7
ResponseFrames ==
  <<create_frame(1, 114, <<1, 2>>), create_frame(1, 104, <<HEADER>>),
    create_frame(1, 126, <<7>>)>>

\* the values an altered byte takes: the marker, a length byte, zero
AltBytes == {HEADER, 5, 0}

RECURSIVE Concat(_)
Concat(fs) == IF fs = << >> THEN << >> ELSE Head(fs) \o Concat(Tail(fs))

\* the alterations of frame f: up to MaxAltered positions, each with a
\* value other than the byte sent
Alterations(f) ==
  UNION {[P -> AltBytes] :
           P \in {Q \in SUBSET (1..Len(f)) :
                    Q # {} /\ Cardinality(Q) <= MaxAltered}}

Altered(f, alt) ==
  [i \in 1..Len(f) |-> IF i \in DOMAIN alt THEN alt[i] ELSE f[i]]

InitCorrupt ==
  /\ \E r \in 0..2, k \in 1..MaxFrames :
       LET fs == [i \in 1..MaxFrames |-> ResponseFrames[((i + r) % 3) + 1]]
       IN  \E alt \in Alterations(fs[k]) :
             /\ \A i \in DOMAIN alt : alt[i] # fs[k][i]
             /\ sent_stream = Concat(fs)
             /\ stream = Concat([fs EXCEPT ![k] = Altered(fs[k], alt)])
  /\ fed = 0
  /\ frames = << >>
  /\ CodecIdle /\ CtrlInit /\ StoreInit /\ SensorInit /\ EnvInit
  /\ AuxIdle

NextCorrupt == OnDataReceived

SpecCorrupt == InitCorrupt /\ [][NextCorrupt]_vars

\* the frames the reader sent
SentFrames == _process_buffer(sent_stream, << >>).frames

\* where frame k of the stream begins (0-based) and ends
FrameStart(k) == Len(Concat(SubSeq(SentFrames, 1, k - 1)))
FrameEnd(k) == FrameStart(k) + Len(SentFrames[k])

\* the positions of the stream altered on the line
AlteredAt == {i \in 1..Len(stream) : stream[i] # sent_stream[i]}

\* the frame the alteration hit
CorruptFrame ==
  CHOOSE k \in 1..Len(SentFrames) :
    \A i \in AlteredAt : FrameStart(k) < i /\ i <= FrameEnd(k)

\* the frames sent other than the corrupt one, in order
OtherFrames ==
  SubSeq(SentFrames, 1, CorruptFrame - 1)
    \o SubSeq(SentFrames, CorruptFrame + 1, Len(SentFrames))

\* the signals raised by dispatching fs to a controller that has raised none
SignalsOf(fs) == DispatchAll([World EXCEPT !.signals = << >>], fs, now).signals

\* the whole stream was delivered: only the other frames were decoded, in
\* order, and the signals raised are theirs
LostAlone ==
  /\ DecodedOf(frames) = DecodedOf(OtherFrames)
  /\ signals = SignalsOf(OtherFrames)

\* C22 as stated: whichever bytes of one frame are altered, that frame
\* raises no event and every other frame is dispatched, in order.
C22_CorruptLostAlone == fed = Len(stream) => LostAlone

\* the alteration spares the marker and the length byte of the frame
AfterLengthByte == \A i \in AlteredAt : i > FrameStart(CorruptFrame) + 2

\* the corrupt frame as it arrives
ArrivedFrame ==
  SubSeq(stream, FrameStart(CorruptFrame) + 1, FrameEnd(CorruptFrame))

\* C22 amended: when the altered bytes all lie after the length byte of the
\* frame, the frame is cut out at its own boundaries; if it no longer
\* passes the checksum - always so when one byte is altered - it raises no
\* event and every other frame is dispatched, in order.
C22_CorruptPayloadLostAlone ==
  (fed = Len(stream) /\ AfterLengthByte) =>
    /\ Cardinality(AlteredAt) = 1 => ~parse_response(ArrivedFrame).valid
    /\ ~parse_response(ArrivedFrame).valid => LostAlone
    /\ Len(frames) = Len(SentFrames)
    /\ frames[CorruptFrame] = ArrivedFrame

\* the command byte and a data byte of the second of three frames were
\* altered; the first and the third frame were dispatched
C22_Witness ==
  /\ fed = Len(stream)
  /\ CorruptFrame = 2
  /\ Cardinality(AlteredAt) = 2
  /\ AfterLengthByte
  /\ ~parse_response(ArrivedFrame).valid
  /\ Len(signals) = 2
  /\ Len(DecodedOf(frames)) = 2

(***************************************************************************)
(* SpecDirection: sensor activations, tag reads, store clears and          *)
(* analyses of one ReaderModel, one call at a time.  A tag is read once a  *)
(* second with its RSSI falling by MaxStep, so that an analysis has a      *)
(* result to carry the direction.                                          *)
(***************************************************************************)
MaxSeconds == 2      \* seconds the clock of a run advances
MaxResolutions == 2  \* sensor resolutions of a run

InitDirection ==
  /\ SensorInit /\ StoreInit
  /\ CodecIdle /\ CtrlInit /\ ReasmIdle /\ EnvInit
  /\ AuxIdle

dirRest == <<codecVars, ctrlVars, reasmVars, tagVars, serialVars, scanVars>>

\* a second passes
DirTick ==
  /\ now < MaxSeconds * 1000
  /\ now' = now + 1000
  /\ UNCHANGED <<calls, last, call_log>>
  /\ UNCHANGED <<storeVars, sensorVars, analysisVars>>
  /\ UNCHANGED dirRest

\* handle_sensor_activation(is_sensor1, datetime.now())
DirActivate ==
  /\ Len(sensor_events) < MaxResolutions
  /\ \E is_sensor1 \in BOOLEAN :
       LET r == handle_sensor_activation(Correlator, is_sensor1, now)
       IN  /\ SetCorrelator(r.model)
           /\ sensor_events' =
                IF r.ret
                THEN Append(sensor_events,
                            [direction |-> r.direction,
                             time_diff |-> r.time_diff])
                ELSE sensor_events
           /\ last' = [op |-> "handle_sensor_activation", ret |-> r.ret]
  /\ UNCHANGED <<epc_dictionary, epc_read_history, total_tag_count>>
  /\ UNCHANGED <<now, calls, call_log>>
  /\ UNCHANGED analysisVars
  /\ UNCHANGED dirRest

\* process_tag of the read of this second, if it was not yet recorded
DirProcessTag ==
  /\ \A i \in 1..Len(epc_read_history) : epc_read_history[i].read_time < now
  /\ LET tag == RXInventoryTag(Str3000, EpcA,
                               StrOfInt(SeriesBase - MaxStep * (now \div 1000)),
                               FormatFrequency(1731), 1)
         r == process_tag(Store, tag, now)
     IN  /\ SetStore(r.model)
         /\ last' = [op |-> "process_tag", tag |-> tag, ret |-> r.ret]
  /\ UNCHANGED <<now, calls, call_log>>
  /\ UNCHANGED <<sensorVars, analysisVars>>
  /\ UNCHANGED dirRest

\* clear_data()
DirClearData ==
  /\ calls < MaxCalls
  /\ SetStore(clear_data(Store))
  /\ last' = [op |-> "clear_data"]
  /\ calls' = calls + 1
  /\ UNCHANGED <<now, call_log>>
  /\ UNCHANGED <<sensorVars, analysisVars>>
  /\ UNCHANGED dirRest

\* analyze_tags()
DirAnalyzeTags ==
  /\ analysis' = <<analyze_tags(Store, now)>>
  /\ last' = [op |-> "analyze_tags"]
  /\ UNCHANGED <<now, calls, call_log>>
  /\ UNCHANGED <<storeVars, sensorVars>>
  /\ UNCHANGED dirRest

NextDirection ==
  \/ DirTick
  \/ DirActivate
  \/ DirProcessTag
  \/ DirClearData
  \/ DirAnalyzeTags

SpecDirection == InitDirection /\ [][NextDirection]_vars

\* the directions that stand for "unknown": SensorDirection.UNKNOWN, and
\* the SensorDirection.X the model starts with
UnknownDirections == {"UNKNOWN", "X"}

\* C23: every result of an analyze_tags run carries the direction of the
\* most recent sensor resolution (unknown if there was none), whatever tag
\* reads and store clears happened in between.
C23_ResultsCarryLastResolution ==
  [][last'.op = "analyze_tags" =>
       \A i \in 1..Len(analysis'[1].results) :
         IF sensor_events = << >>
         THEN analysis'[1].results[i].direction \in UnknownDirections
         ELSE analysis'[1].results[i].direction =
                sensor_events[Len(sensor_events)].direction]_vars

(***************************************************************************)
(* The send-loop.  start_inventory starts a thread that polls the reader   *)
(* with the fast-switch command while self._is_inventory_running is set;   *)
(* stop_inventory and cleanup clear the flag and wait for the thread for   *)
(* at most 2 s.  disconnect_reader with a scan running is stop_inventory   *)
(* followed by the disconnect of the port, the two actions below taken one *)
(* after the other.  wire records what every poll put on the line.         *)
(***************************************************************************)
InitSendLoop ==
  /\ ReasmIdle
  /\ CodecIdle /\ CtrlInit /\ StoreInit /\ SensorInit /\ EnvInit
  /\ TagIdle /\ AnalysisIdle /\ SerialInit /\ ScanInit

\* ReaderController.cleanup up to the join of self._inventory_thread
Cleanup ==
  /\ ui_pc = "idle"
  /\ is_inventory_running' = FALSE
  /\ ui_pc' = "cleanup_join"
  /\ UNCHANGED <<response_buffer, tag_queue, counts_dirty, signals>>
  /\ UNCHANGED <<reader_port, sensor_port, is_reading, prev_cts, prev_dsr,
                 reader_threads, sensor_threads, serial_log, sampled>>
  /\ UNCHANGED <<codecVars, reasmVars, storeVars, sensorVars, envVars,
                 tagVars, analysisVars, scanVars>>

\* cleanup after the join, which returns when the thread has ended or
\* after 2 s: SerialManager.cleanup closes the ports, and the window is gone
CleanupClose ==
  /\ ui_pc = "cleanup_join"
  /\ is_reading' = FALSE
  /\ reader_port' = IF reader_port = "open" THEN "closed" ELSE reader_port
  /\ sensor_port' = IF sensor_port = "open" THEN "closed" ELSE sensor_port
  /\ ui_pc' = "exited"
  /\ UNCHANGED <<prev_cts, prev_dsr, reader_threads, sensor_threads,
                 serial_log, sampled>>
  /\ UNCHANGED <<codecVars, ctrlVars, reasmVars, storeVars, sensorVars,
                 envVars, tagVars, analysisVars, scanVars>>

NextSendLoop ==
  \/ ConnectReaderOnce
  \/ ConnectReaderOpen
  \/ DisconnectReader
  \/ DisconnectReaderClose
  \/ StartInventory
  \/ StartInventoryClear
  \/ \E i \in 1..MaxScans : InventoryLoopTest(i)
  \/ \E i \in 1..MaxScans : InventoryLoopSend(i)
  \/ StopInventory
  \/ StopFlush
  \/ StopJoin
  \/ StopReport
  \/ Cleanup
  \/ CleanupClose

SpecSendLoop == InitSendLoop /\ [][NextSendLoop]_vars

\* the start_inventory calls that built a configuration, in order
Starts == SelectSeq(call_log, LAMBDA c : c.op = "start_inventory")

\* data is the 10-byte configuration of a start_inventory(antennas) call:
\* stay bytes 0, 1, 2, 3, each followed by the flag of its antenna, and two
\* reserved bytes
IsConfigOf(data, antennas) ==
  /\ Len(data) = 10
  /\ \A k \in 1..4 :
       /\ data[2 * k - 1] = k - 1
       /\ data[2 * k] \in {0, 1}
       /\ data[2 * k] = 1 <=> antennas[k]
  /\ data[9] = 0 /\ data[10] = 0

\* frame is a fast-switch poll with the configuration of one of the calls
IsPollOfAStart(frame) ==
  LET r == parse_response(frame)
  IN  /\ r.valid
      /\ r.cmd = CMD_FAST_SWITCH
      /\ \E j \in 1..Len(Starts) : IsConfigOf(r.data, Starts[j].antennas)

\* C24: every fast-switch poll the send-loop puts on the line is one whole
\* poll frame carrying the 10-byte configuration of one start_inventory
\* call (stay bytes 0..3, flags 0/1 as that call's antennas, two reserved
\* zero bytes); a write that fails puts the first bytes of such a frame on
\* the line, never bytes of two configurations
C24_PollCarriesOneConfig ==
  \A p \in 1..Len(wire) :
    IF wire[p].ret THEN IsPollOfAStart(wire[p].written)
    ELSE \E j \in 1..Len(Starts) :
           LET cmd == build_fast_switch_inventory(
                        BROADCAST, antenna_config_of(Starts[j].antennas))
           IN  /\ Len(wire[p].written) < Len(cmd)
               /\ wire[p].written = SubSeq(cmd, 1, Len(wire[p].written))

\* two scans with different antennas, each with a poll on the line
C24_Witness ==
  /\ Len(Starts) = 2
  /\ Starts[1].antennas # Starts[2].antennas
  /\ \E p, q \in 1..Len(wire) :
       /\ wire[p].ret /\ wire[q].ret
       /\ wire[p].scan = 1 /\ wire[q].scan = 2
       /\ wire[p].written # wire[q].written

\* the polls thread i sent after it found the flag clear, in scan k
LatePolls(i, k) ==
  {p \in 1..Len(wire) :
     wire[p].thread = i /\ wire[p].scan = k /\ ~wire[p].running}

\* C25: cancellation of the send-loop is cooperative and effective.  With
\* the running flag clear (stop_inventory, disconnect_reader and cleanup
\* clear it) a send-loop thread that tests the flag ends and stays ended,
\* and a thread that was already past the test sends one poll and goes
\* back to the test: as long as the flag is not set again (no new scan)
\* there is at most one such poll per thread.
C25_CancelEffective ==
  [][\A i \in 1..Len(inventory_threads) :
       /\ (/\ inventory_threads[i] = "loop"
           /\ ~is_inventory_running
           /\ inventory_threads'[i] # "loop")
            => inventory_threads'[i] = "dead"
       /\ inventory_threads[i] = "dead" => inventory_threads'[i] = "dead"
       /\ (/\ inventory_threads[i] = "send"
           /\ ~is_inventory_running
           /\ inventory_threads'[i] # "send")
            => /\ inventory_threads'[i] = "loop"
               /\ Len(wire') = Len(wire) + 1
               /\ ~is_inventory_running'
       /\ \A k \in 1..MaxScans : Cardinality(LatePolls(i, k)') <= 1]_vars

\* a thread has sent its one further poll after stop_inventory cleared
\* the flag, and has ended
C25_Witness ==
  /\ ~is_inventory_running
  /\ \E i \in 1..Len(inventory_threads) :
       /\ inventory_threads[i] = "dead"
       /\ LatePolls(i, scan_no) # {}

\* the send-loop threads that will put another poll on the line: those in
\* the body of the loop, and those at its test while the flag is set
Issuing ==
  {i \in 1..Len(inventory_threads) :
     \/ inventory_threads[i] = "send"
     \/ inventory_threads[i] = "loop" /\ is_inventory_running}

\* C26: over any sequence of start_inventory and stop_inventory calls, a
\* stop whose join timed out and an immediate start included, at most one
\* send-loop thread is issuing polls at any time
C26_OneSendLoop == Cardinality(Issuing) <= 1

(***************************************************************************)
(* SpecTrigger: the sensors during a scan.  The run starts in the middle   *)
(* of the first scan: the reader is connected, the send-loop runs, and one *)
(* tag has been read once a second for three seconds with a steady change  *)
(* of its RSSI.  The reader worker samples the sensor lines; the user      *)
(* starts and stops scans.  The reader sends no more tag frames.           *)
(***************************************************************************)
TriggerSteps == {0 - MaxStep, 0}
LastSecond == 3      \* the clock stops at this second

InitTrigger ==
  /\ \E step \in TriggerSteps :
       LET m == StoreOfHistory(SteadySeries(step))
       IN  /\ epc_dictionary = m.epc_dictionary
           /\ epc_read_history = m.epc_read_history
           /\ total_tag_count = m.total_tag_count
  /\ detected_direction = "X"
  /\ response_buffer = << >> /\ tag_queue = << >> /\ counts_dirty = FALSE
  /\ signals = << >>
  /\ is_inventory_running = TRUE
  /\ reader_port = "open" /\ sensor_port = "None" /\ is_reading = TRUE
  /\ prev_cts = FALSE /\ prev_dsr = FALSE
  /\ reader_threads = <<NewThread>> /\ sensor_threads = << >>
  /\ ui_pc = "idle" /\ serial_log = << >>
  /\ sampled = [cts |-> FALSE, dsr |-> FALSE]
  /\ antenna_config = antenna_config_of(<<TRUE, TRUE, FALSE, FALSE>>)
  /\ inventory_thread = 1 /\ inventory_threads = <<"loop">>
  /\ timer_active = TRUE
  /\ last_unique_count = 0 /\ last_total_count = 0
  /\ view_running = TRUE /\ scan_no = 1 /\ queued = << >> /\ wire = << >>
  /\ now = 2000 /\ calls = 0
  /\ last = [op |-> "start_inventory", started |-> TRUE,
             log |-> <<Log("Inventory started", << >>, 2)>>]
  /\ call_log = <<[op |-> "start_inventory",
                   antennas |-> <<TRUE, TRUE, FALSE, FALSE>>]>>
  /\ CodecIdle /\ ReasmIdle /\ SensorInit
  /\ TagIdle /\ AnalysisIdle

\* a second passes
TriggerTick ==
  /\ now < LastSecond * 1000
  /\ now' = now + 1000
  /\ UNCHANGED <<calls, last, call_log>>
  /\ UNCHANGED <<codecVars, ctrlVars, reasmVars, storeVars, sensorVars,
                 auxVars>>

NextTrigger ==
  \/ TriggerTick
  \/ StartInventory
  \/ StartInventoryClear
  \/ InventoryLoop
  \/ TimerFlush
  \/ StopInventory
  \/ OnSensorLine
  \/ StopFlush
  \/ StopJoin
  \/ StopReport

SpecTrigger == InitTrigger /\ [][NextTrigger]_vars

\* handle_sensor_activation resolved a direction in this step
Resolved == Len(sensor_events') = Len(sensor_events) + 1

\* the reader workers that enter stop_inventory in this step
WorkersStopping ==
  {w \in 1..Len(reader_threads) :
     reader_threads[w].pc = "loop" /\ reader_threads'[w].pc = "stop_flush"}

\* the reader workers whose stop_inventory returns in this step
WorkersReturning ==
  {w \in 1..Len(reader_threads) :
     reader_threads[w].pc = "stop_report" /\ reader_threads'[w].pc = "loop"}

\* the reader workers that take a step of stop_inventory before its last
WorkersInStop ==
  {w \in 1..Len(reader_threads) :
     /\ reader_threads[w].pc \in {"stop_flush", "stop_join"}
     /\ reader_threads'[w].pc # reader_threads[w].pc}

MaxDispatched == 2   \* frames the reader sends in one run

DispatchFrames == {TagFrame, InfoFrame, create_frame(1, 104, <<171>>)}

InitDispatch ==
  /\ \E fs \in SeqsUpTo(DispatchFrames, MaxDispatched) : stream = Concat(fs)
  /\ sent_stream = stream
  /\ fed = 0
  /\ frames = << >>
  /\ response_buffer = << >> /\ tag_queue = << >> /\ counts_dirty = FALSE
  /\ signals = << >>
  /\ reader_port = "open" /\ sensor_port = "None" /\ is_reading = TRUE
  /\ prev_cts = FALSE /\ prev_dsr = FALSE
  /\ reader_threads = <<NewThread>> /\ sensor_threads = << >>
  /\ ui_pc = "idle" /\ serial_log = << >>
  /\ sampled = [cts |-> FALSE, dsr |-> FALSE]
  /\ \/ /\ is_inventory_running = FALSE
        /\ ScanInit
        /\ call_log = << >>
        /\ last = [op |-> "connect_reader", ret |-> TRUE,
                   log |-> <<Log("Connected to", << >>, 2)>>]
     \/ /\ is_inventory_running = TRUE
        /\ antenna_config = antenna_config_of(<<TRUE, TRUE, FALSE, FALSE>>)
        /\ inventory_thread = 1 /\ inventory_threads = <<"loop">>
        /\ timer_active = TRUE
        /\ last_unique_count = 0 /\ last_total_count = 0
        /\ view_running = TRUE /\ scan_no = 1
        /\ queued = << >> /\ wire = << >>
        /\ call_log = <<[op |-> "start_inventory",
                         antennas |-> <<TRUE, TRUE, FALSE, FALSE>>]>>
        /\ last = [op |-> "start_inventory", started |-> TRUE,
                   log |-> <<Log("Inventory started", << >>, 2)>>]
  /\ now = 0 /\ calls = 0
  /\ StoreInit /\ SensorInit /\ CodecIdle /\ TagIdle /\ AnalysisIdle

NextDispatch == OnDataReceived

SpecDispatch == InitDispatch /\ [][NextDispatch]_vars

\* the frames handed to _process_frame in this step
NewFrames == SubSeq(frames', Len(frames) + 1, Len(frames'))

\* the signals emitted in this step
NewSignals == SubSeq(signals', Len(signals) + 1, Len(signals'))

\* the valid frames of fs that are not tag reads
OtherResponses(fs) ==
  SelectSeq(fs, LAMBDA f : /\ parse_response(f).valid
                           /\ parse_response(f).cmd # CMD_FAST_SWITCH)

\* the key of reader_info_updated for an answer to command cmd
InfoKey(cmd) == IF cmd = 114 THEN "firmware" ELSE "reader_id"

\* C28: a valid 0x8A frame dispatched while no scan is running leaves the
\* inventory store and the UI tag queue as they were; the other response
\* types are dispatched all the same, one signal for every such frame, in
\* the order of the frames.
C28_NoReadOutsideScan ==
  [][~is_inventory_running =>
       /\ UNCHANGED <<epc_dictionary, epc_read_history, total_tag_count,
                      detected_direction>>
       /\ UNCHANGED <<tag_queue, counts_dirty>>
       /\ Len(NewSignals) = Len(OtherResponses(NewFrames))
       /\ \A i \in 1..Len(NewSignals) :
            /\ NewSignals[i].signal = "reader_info_updated"
            /\ NewSignals[i].key =
                 InfoKey(parse_response(OtherResponses(NewFrames)[i]).cmd)
    ]_vars

\* with no scan running a tag frame and a firmware answer were dispatched
C28_Witness ==
  /\ ~is_inventory_running
  /\ frames = <<TagFrame, InfoFrame>>
  /\ Len(signals) = 1
  /\ epc_read_history = << >>
  /\ tag_queue = << >>

\* the sum of the read counts of the EPCs in epcs
RECURSIVE SumOfCounts(_, _)
SumOfCounts(m, epcs) ==
  IF epcs = {} THEN 0
  ELSE LET epc == CHOOSE e \in epcs : TRUE
       IN  get_tag_count(m, epc) + SumOfCounts(m, epcs \ {epc})

\* the events of the read history with this EPC
EventsOf(epc) ==
  {i \in 1..Len(epc_read_history) : epc_read_history[i].epc = epc}

\* the EPCs the store knows of, by its map or by its history
KnownEpcs ==
  DOMAIN epc_dictionary
    \cup {epc_read_history[i].epc : i \in 1..Len(epc_read_history)}

\* C29: after any sequence of process_tag and clear_data calls, run one at
\* a time, the read counts of all EPCs add up to the length of the read
\* history, and get_tag_count(epc) is the number of history events with
\* that EPC.
C29_CountsMatchHistory ==
  /\ SumOfCounts(Store, DOMAIN epc_dictionary) = Len(epc_read_history)
  /\ \A epc \in KnownEpcs :
       get_tag_count(Store, epc) = Cardinality(EventsOf(epc))

\* the read that reached the ceiling cleared the store and was recorded,
\* and a read of another tag followed
C29_Witness ==
  /\ total_tag_count = 1
  /\ Len(epc_read_history) = 2
  /\ Cardinality(DOMAIN epc_dictionary) = 2
  /\ last.op = "process_tag"

(***************************************************************************)
(* SpecRetain: what the reassembler keeps.  The reader sends short streams *)
(* of any bytes, or a frame with the largest length byte, with or without  *)
(* garbage before it and with a few bytes after it; the worker delivers    *)
(* the stream in chunks of any size.                                       *)
(***************************************************************************)
MaxShort == 5        \* longest short stream
MaxExtra == 3        \* bytes sent after the longest frame

\* HEADER, 255, and the 255 bytes the length byte announces
LongestFrame ==
  [i \in 1..(MAX_LENGTH_BYTE + 2) |->
     IF i = 1 THEN HEADER ELSE IF i = 2 THEN MAX_LENGTH_BYTE ELSE 23]

RetainStreams ==
  SeqsUpTo(StreamBytes, MaxShort)
    \cup {garbage \o LongestFrame \o Repeat(<<HEADER>>, MaxExtra) :
            garbage \in {<< >>, <<4, 23>>}}

InitRetain ==
  /\ stream \in RetainStreams
  /\ sent_stream = stream
  /\ fed = 0
  /\ frames = << >>
  /\ CodecIdle /\ CtrlInit /\ StoreInit /\ SensorInit /\ EnvInit
  /\ AuxIdle

NextRetain == OnDataReceived

SpecRetain == InitRetain /\ [][NextRetain]_vars

\* the number of bytes in the frames of fs
RECURSIVE TotalLen(_)
TotalLen(fs) == IF fs = << >> THEN 0 ELSE Len(Head(fs)) + TotalLen(Tail(fs))

\* C30: each time _on_data_received returns, the buffer holds fewer than 5
\* bytes, or starts with 0xA0 and is shorter than its length byte + 2, so
\* that it never holds more than 256 bytes; every frame taken out is its
\* length byte + 2 >= 2 bytes long and the loop only removes bytes: frames
\* and buffer together never hold more bytes than were delivered.
C30_BufferBounded ==
  /\ \/ Len(response_buffer) < 5
     \/ /\ response_buffer[1] = HEADER
        /\ Len(response_buffer) < response_buffer[2] + 2
  /\ Len(response_buffer) <= MAX_LENGTH_BYTE + 1
  /\ \A i \in 1..Len(frames) :
       /\ Len(frames[i]) = frames[i][2] + 2
       /\ Len(frames[i]) >= 2
  /\ TotalLen(frames) + Len(response_buffer) <= fed

\* 256 bytes of the longest frame are held, its last byte is awaited
C30_Witness ==
  /\ Len(response_buffer) = MAX_LENGTH_BYTE + 1
  /\ response_buffer[2] = MAX_LENGTH_BYTE
  /\ fed > Len(response_buffer)

=============================================================================
